---- MODULE Spec2Model ----
(***************************************************************************)
(* A model of the context and request-lifecycle engine of flask:           *)
(* the application and request context stacks (flask/ctx.py), the per-    *)
(* request pipeline of Flask.wsgi_app (flask/app.py), the first-request    *)
(* gate and the setup-method guard, and the error handler lookup.          *)
(***************************************************************************)
EXTENDS Integers, Sequences, FiniteSets, TLC

(***************************************************************************)
(* Bounds of the model.                                                    *)
(***************************************************************************)
\* largest number of entries either context stack may hold
MaxStack == 3
\* the same bound where contexts are pushed and popped in arbitrary order
MaxStackArbitrary == 2
\* largest number of failing operations the model follows where contexts are
\* pushed and popped in arbitrary order
MaxErrors == 1
\* largest number of error handlers registered
MaxHandlers == 2
\* largest number of requests that arrive
MaxRequests == 3
\* largest number of times run() returns
MaxStops == 1
\* largest number of rules in the URL map
MaxRules == 2
\* largest number of requests served where every behaviour of a request is drawn
MaxCalls == 1

(***************************************************************************)
(* Values.                                                                 *)
(***************************************************************************)
\* Python's None
None == "None"
\* ctx._sentinel: the default of the exc parameter of pop()
Sentinel == "_sentinel"
\* the exception objects a caller passes to pop()/auto_pop()
Exceptions == {"E1"}
\* the exception a teardown callback raises
HookError == "HookError"
\* the sets of callbacks that raise, as drawn for one operation
BadSets == {{}, {"tr2"}, {"ta2"}}

\* the applications of the process
Apps == {"app1", "app2"}
\* the RequestContext instances; RequestContext.app is fixed at construction
RequestContexts == {"r1", "r2", "r3"}
\* those made by Flask.request_context; "r3" is made by RequestContext.copy
Originals == {"r1", "r2"}
\* the AppContext instances; AppContext.app is fixed at construction
AppContexts == {"a1", "a3"}

VARIABLES
    app_ctx_stack,            \* globals._app_ctx_stack of the thread
    request_ctx_stack,        \* globals._request_ctx_stack of the thread
    refcnt,                   \* AppContext._refcnt
    implicit_app_ctx_stack,   \* RequestContext._implicit_app_ctx_stack
    preserved,                \* RequestContext.preserved
    preserved_exc,            \* RequestContext._preserved_exc
    url_adapter,              \* RequestContext.url_adapter: what its match() does for the request
    routing_exception,        \* RequestContext.request.routing_exception
    ctx_after_request_functions, \* RequestContext._after_request_functions
    session,                  \* RequestContext.session: None, or the session object it refers to
    sessions,                 \* the session objects: their keys and their attribute modified
    cookie,                   \* the keys of the data in the session cookie of RequestContext.request
    preserve_on_exc,          \* Flask.preserve_context_on_exception
    pushes,                   \* per context, its push() calls not yet matched by a pop() call
    scopes,                   \* the with blocks and response generators the thread is inside of
    errors,                   \* the number of operations that raised, where the order is arbitrary
    error_handler_spec,       \* Flask.error_handler_spec: scope -> code -> class -> handler
    debug,                    \* Flask.debug
    propagate_exceptions,     \* Flask.propagate_exceptions
    trap_http_exceptions,     \* Flask.config["TRAP_HTTP_EXCEPTIONS"]
    secret_key,               \* Flask.secret_key is set
    session_refresh_each_request, \* Flask.config["SESSION_REFRESH_EACH_REQUEST"]
    got_first_request,        \* Flask._got_first_request
    before_request_lock,      \* Flask._before_request_lock: the thread that holds it, or None
    pc,                       \* per thread, where it is in handling a request
    hook_index,               \* per thread, the first-request function it calls next
    requests,                 \* the number of requests that have arrived
    stops,                    \* the number of times run() has returned
    first_runs,               \* per first-request function, the number of calls of it
    passed,                   \* a request has passed the first-request gate since run() last returned
    dispatched,               \* a request has been dispatched
    url_map,                  \* Flask.url_map: the rules added, in order
    view_functions,           \* Flask.view_functions: endpoint -> view function
    setup,                    \* the last call of a setup method and its result
    call,                     \* the last call of a function of no state: its argument and result
    found,                    \* the last lookup of an error handler since the registry
                              \* changed, and its result
    last                      \* the last operation: its name, context, result, the calls it
                              \* made, and the stacks as it found them

ctxVars == <<app_ctx_stack, request_ctx_stack, refcnt, implicit_app_ctx_stack,
             preserved, preserved_exc, url_adapter, routing_exception,
             ctx_after_request_functions, session, sessions, cookie, pushes, scopes, errors,
             last>>

\* the configuration of the application
cfgVars == <<preserve_on_exc, debug, propagate_exceptions, trap_http_exceptions, secret_key,
             session_refresh_each_request>>

\* the first-request gate of the application, its threads and its routes
firstVars == <<got_first_request, before_request_lock, pc, hook_index, requests, stops,
               first_runs, passed, dispatched, url_map, view_functions, setup>>

\* the calls of the functions that read and write no state
pureVars == <<call>>

\* no call made yet
NoCall == [op |-> "init"]

\* the registry of error handlers and the lookups in it
errVars == <<error_handler_spec, found>>

vars == <<ctxVars, cfgVars, pureVars, errVars, firstVars>>

(***************************************************************************)
(* Sequences.                                                              *)
(***************************************************************************)
Front(s) == SubSeq(s, 1, Len(s) - 1)

Last(s) == s[Len(s)]

RECURSIVE Reverse(_)
Reverse(s) == IF s = <<>> THEN <<>> ELSE Append(Reverse(Tail(s)), Head(s))

\* the elements of s that lie in the set S, in the order of s
RECURSIVE Only(_, _)
Only(s, S) ==
    IF s = <<>> THEN <<>>
    ELSE (IF Head(s) \in S THEN <<Head(s)>> ELSE <<>>) \o Only(Tail(s), S)

\* the prefix of s up to and including its first element in S (all of s if none)
RECURSIVE UpTo(_, _)
UpTo(s, S) ==
    IF s = <<>> THEN <<>>
    ELSE IF Head(s) \in S THEN <<Head(s)>>
    ELSE <<Head(s)>> \o UpTo(Tail(s), S)

Range(s) == {s[i] : i \in 1..Len(s)}

\* the least element of a non-empty set of numbers
Min(S) == CHOOSE x \in S : \A y \in S : x <= y

(***************************************************************************)
(* The registries of teardown callbacks, and the fixed attributes of the   *)
(* context instances.                                                      *)
(***************************************************************************)
\* Flask.teardown_request_funcs: scope (None or a blueprint name) -> callbacks
\* in registration order
teardown_request_funcs ==
    [sc \in {None, "bp"} |-> IF sc = None THEN <<"tr1", "tr2">> ELSE <<"br1">>]

\* Flask.teardown_appcontext_funcs, in registration order
teardown_appcontext_funcs == <<"ta1", "ta2">>

TeardownFuncs == {"tr1", "tr2", "br1", "ta1", "ta2"}

\* RequestContext.app
ReqApp(r) == IF r = "r2" THEN "app2" ELSE "app1"

\* AppContext.app
CtxApp(a) == IF a = "a3" THEN "app2" ELSE "app1"

\* request.environ.get("flask._preserve_context")
preserve_context(r) == r = "r2"

\* request.blueprint: the blueprint of the rule the request matched
blueprint(r) == IF r = "r2" THEN "bp" ELSE None

\* what url_adapter.match() does: it returns a rule, or raises an HTTPException
Matched == "rule"

\* Request.blueprint (wrappers.py): the blueprint of request.url_rule, None if no rule matched
Request_blueprint(st, r) == IF st.routing_exception[r] # None THEN None ELSE blueprint(r)

(***************************************************************************)
(* The state the context operations read and write, as one record, so that *)
(* an operation that calls another is the composition of their effects.    *)
(***************************************************************************)
State ==
    [app_ctx_stack |-> app_ctx_stack,
     request_ctx_stack |-> request_ctx_stack,
     refcnt |-> refcnt,
     implicit_app_ctx_stack |-> implicit_app_ctx_stack,
     preserved |-> preserved,
     preserved_exc |-> preserved_exc,
     url_adapter |-> url_adapter,
     routing_exception |-> routing_exception,
     ctx_after_request_functions |-> ctx_after_request_functions,
     session |-> session,
     sessions |-> sessions,
     cookie |-> cookie,
     pushes |-> pushes,
     got_first_request |-> got_first_request,
     log |-> <<>>]

\* the outcome of an operation: the state it leaves and the exception it raises
Ok(st) == [st |-> st, err |-> None]

Raise(st, e) == [st |-> st, err |-> e]

(***************************************************************************)
(* werkzeug.local.LocalStack, as ctx.py uses it.                           *)
(***************************************************************************)
LocalStack_top(stack) == IF stack = <<>> THEN None ELSE Last(stack)

LocalStack_push(stack, obj) == Append(stack, obj)

\* pop() returns the removed entry, or None from an empty stack
LocalStack_pop(stack) ==
    IF stack = <<>> THEN [rv |-> None, stack |-> <<>>]
    ELSE [rv |-> Last(stack), stack |-> Front(stack)]

(***************************************************************************)
(* Teardown: Flask.do_teardown_appcontext and Flask.do_teardown_request.   *)
(* bad is the set of callbacks that raise when they are called.            *)
(***************************************************************************)
\* the callbacks of funcs that get called: the loop stops at the first that raises
CalledFuncs(funcs, bad) == UpTo(funcs, bad)

\* the callbacks ran, as entries of the log of calls
Events(name, ctx, called, exc) == [i \in 1..Len(called) |-> <<name, ctx, called[i], exc>>]

Logged(st, events) == [st EXCEPT !.log = @ \o events]

\* a loop that ends at the first callback that raises and swallows its exception
RunTeardown_swallowing(st, name, ctx, funcs, exc, bad) ==
    Ok(Logged(st, Events(name, ctx, CalledFuncs(funcs, bad), exc)))

\* for func in funcs: func(exc)
RunTeardown(st, name, ctx, funcs, exc, bad) ==
    [st |-> Logged(st, Events(name, ctx, CalledFuncs(funcs, bad), exc)),
     err |-> IF Range(funcs) \cap bad # {} THEN HookError ELSE None]

do_teardown_appcontext(st, a, exc, bad) ==
    RunTeardown(Logged(st, <<<<"do_teardown_appcontext", a, None, exc>>>>),
                "teardown_appcontext", a, Reverse(teardown_appcontext_funcs), exc, bad)

\* funcs = reversed(self.teardown_request_funcs.get(None, ())), then those of
\* the blueprint of the request on top of the stack
TeardownRequestFuncs(bp) ==
    Reverse(teardown_request_funcs[None])
    \o (IF bp # None /\ bp \in DOMAIN teardown_request_funcs
        THEN Reverse(teardown_request_funcs[bp]) ELSE <<>>)

\* with no request context bound, top.request raises before any callback runs
do_teardown_request(st, r, exc, bad) ==
    IF LocalStack_top(st.request_ctx_stack) = None
    THEN Raise(Logged(st, <<<<"do_teardown_request", r, None, exc>>>>), "AttributeError")
    ELSE RunTeardown(Logged(st, <<<<"do_teardown_request", r, None, exc>>>>),
                     "teardown_request", r,
                     TeardownRequestFuncs(Request_blueprint(st, LocalStack_top(st.request_ctx_stack))),
                     exc, bad)

(***************************************************************************)
(* Sessions (sessions.py).  A session object is the set of its keys and    *)
(* its attribute modified; of the values of the keys only that of          *)
(* "_permanent" plays a role, and where the key is present it is True.     *)
(***************************************************************************)
\* the keys a session may hold
SessionKeys == {"k", "_permanent"}

\* SecureCookieSession(initial): modified = False
SecureCookieSession(initial) == [null |-> FALSE, keys |-> initial, modified |-> FALSE]

\* make_null_session: an instance of NullSession
make_null_session == [null |-> TRUE, keys |-> {}, modified |-> FALSE]

\* is_null_session: isinstance(obj, self.null_session_class)
is_null_session(obj) == obj.null

\* SessionMixin.permanent: self.get("_permanent", False)
SessionMixin_permanent(s) == "_permanent" \in s.keys

\* the methods that change a mapping
MutatingMethods ==
    {"__setitem__", "__delitem__", "clear", "pop", "popitem", "update", "setdefault"}

\* NullSession with __setitem__ left as inherited
NullSession_fail_but_setitem == MutatingMethods \ {"__setitem__"}

\* NullSession: __setitem__ = __delitem__ = clear = pop = popitem = update = setdefault = _fail
NullSession_fail ==
    {"__setitem__", "__delitem__", "clear", "pop", "popitem", "update", "setdefault"}

\* what a view does with flask.session: it calls one of the methods on the key
\* "k", sets session.permanent = True, or reads with get
SessionOps == MutatingMethods \cup {"permanent", "get"}

\* the method of the mapping an operation ends in: the setter of permanent
\* does self["_permanent"] = bool(value)
MethodOf(op) == IF op = "permanent" THEN "__setitem__" ELSE op

\* the operations whose effect on a session is the same for every dict: a key
\* is removed where it is present, and set by setdefault where it is absent
Applicable(s, op) ==
    \/ is_null_session(s)
    \/ op \in {"__setitem__", "update", "clear", "permanent", "get"}
    \/ op \in {"__delitem__", "pop"} /\ "k" \in s.keys
    \/ op = "popitem" /\ s.keys = {"k"}
    \/ op = "setdefault" /\ "k" \notin s.keys

\* the keys of a session after an operation on it
KeysAfter(keys, op) ==
    IF op \in {"__setitem__", "update", "setdefault"} THEN keys \cup {"k"}
    ELSE IF op = "permanent" THEN keys \cup {"_permanent"}
    ELSE IF op \in {"__delitem__", "pop", "popitem"} THEN keys \ {"k"}
    ELSE IF op = "clear" THEN {}
    ELSE keys

\* on_update of SecureCookieSession: self.modified = True
SecureCookieSession_apply(s, op) ==
    [s EXCEPT !.keys = KeysAfter(@, op), !.modified = IF op = "get" THEN @ ELSE TRUE]

\* whether the operation raises the RuntimeError of NullSession._fail
SessionOpFails(s, op) == is_null_session(s) /\ MethodOf(op) \in NullSession_fail

\* open_session of SecureCookieSessionInterface: nothing without a secret key,
\* or else a session of the data of the cookie (none without a valid cookie)
SecureCookieSessionInterface_open_session(st, r) ==
    IF ~secret_key THEN {} ELSE {SecureCookieSession(st.cookie[r])}

\* should_set_cookie without the refresh of permanent sessions
should_set_cookie_if_modified(s) == s.modified

\* should_set_cookie: modified, or permanent and SESSION_REFRESH_EACH_REQUEST
should_set_cookie(s) ==
    s.modified \/ (SessionMixin_permanent(s) /\ session_refresh_each_request)

\* save_session of SecureCookieSessionInterface for the response of context top
SecureCookieSessionInterface_save_session(st, top, s) ==
    IF s.keys = {}
    THEN (IF s.modified THEN Logged(st, <<<<"delete_cookie", top, None, None>>>>) ELSE st)
    ELSE IF ~should_set_cookie(s) THEN st
    ELSE Logged(st, <<<<"set_cookie", top, None, None>>>>)

(***************************************************************************)
(* AppContext (ctx.py).                                                    *)
(***************************************************************************)
\* push binding the context only when the count goes from 0 to 1
AppContext_push_first_only(st, a) ==
    [st EXCEPT !.refcnt[a] = @ + 1,
               !.pushes[a] = @ + 1,
               !.app_ctx_stack = IF st.refcnt[a] = 0 THEN LocalStack_push(@, a) ELSE @,
               !.log = Append(@, <<"AppContext.push", a, None, None>>)]

AppContext_push(st, a) ==
    [st EXCEPT !.refcnt[a] = @ + 1,
               !.pushes[a] = @ + 1,
               !.app_ctx_stack = LocalStack_push(@, a),
               !.log = Append(@, <<"AppContext.push", a, None, None>>)]

\* the state after rv = stack.pop(), the entry removed noted in the log
Unbound(st, name, stack, after) ==
    Logged(after, <<<<name, LocalStack_pop(stack).rv, None, None>>>>)

\* the end of pop with the assertion left out
AppContext_pop_no_assert(st, err, rv, a) == [st |-> st, err |-> err]

\* assert rv is self, reached unless the try block raised
AppContext_pop_assert(st, err, rv, a) ==
    [st |-> st,
     err |-> IF err # None THEN err ELSE IF rv # a THEN "AssertionError" ELSE None]

\* finally that reads the top of the stack and leaves it there
AppContext_pop_finally_keeping(td, a) ==
    AppContext_pop_assert(td.st, td.err, LocalStack_top(td.st.app_ctx_stack), a)

\* finally: rv = _app_ctx_stack.pop()
AppContext_pop_finally(td, a) ==
    AppContext_pop_assert(Unbound(td.st, "_app_ctx_stack.pop", td.st.app_ctx_stack,
                                  [td.st EXCEPT !.app_ctx_stack = LocalStack_pop(@).stack]),
                          td.err, LocalStack_pop(td.st.app_ctx_stack).rv, a)

\* the try block with the test of the count left out
AppContext_pop_try_every(st, a, exc, bad) == do_teardown_appcontext(st, a, exc, bad)

\* try: self._refcnt -= 1; teardown if the count is <= 0
AppContext_pop_try(st, a, exc, bad) ==
    IF st.refcnt[a] <= 0 THEN do_teardown_appcontext(st, a, exc, bad) ELSE Ok(st)

\* amb is sys.exc_info()[1], the exception being handled where pop is called
AppContext_pop(st, a, exc, amb, bad) ==
    AppContext_pop_finally(
        AppContext_pop_try([st EXCEPT !.refcnt[a] = @ - 1, !.pushes[a] = @ - 1,
                                      !.log = Append(@, <<"AppContext.pop", a, None, exc>>)],
                           a, IF exc = Sentinel THEN amb ELSE exc, bad),
        a)

(***************************************************************************)
(* RequestContext (ctx.py).                                                *)
(***************************************************************************)
\* an AppContext instance nothing refers to: Flask.app_context() constructs it
IsFree(st, a) ==
    /\ a \notin Range(st.app_ctx_stack)
    /\ \A r \in RequestContexts : a \notin Range(st.implicit_app_ctx_stack[r])

FreeAppContexts(st, app) == {a \in AppContexts : CtxApp(a) = app /\ IsFree(st, a)}

\* Flask.app_context(): a new AppContext of the application, _refcnt = 0
app_context(st, app) == CHOOSE a \in FreeAppContexts(st, app) : TRUE

\* the end of pop with the assertion left out
RequestContext_pop_no_assert(ap, tderr, rv, r) ==
    [st |-> ap.st, err |-> IF ap.err # None THEN ap.err ELSE tderr]

\* assert rv is self, reached unless app_ctx.pop raised
RequestContext_pop_assert(ap, tderr, rv, r) ==
    [st |-> ap.st,
     err |-> IF ap.err # None THEN ap.err
             ELSE IF rv # r THEN "AssertionError"
             ELSE tderr]

\* finally that pops the application context before the request context
RequestContext_pop_finally_app_first(td, r, app_ctx, exc, amb, bad) ==
    LET ap == IF app_ctx # None
              THEN AppContext_pop(td.st, app_ctx, exc, IF td.err # None THEN td.err ELSE amb, bad)
              ELSE Ok(td.st)
    IN  RequestContext_pop_assert(
            [ap EXCEPT !.st = Unbound(ap.st, "_request_ctx_stack.pop", ap.st.request_ctx_stack,
                                      [ap.st EXCEPT !.request_ctx_stack = LocalStack_pop(@).stack])],
            td.err, LocalStack_pop(td.st.request_ctx_stack).rv, r)

\* finally: rv = _request_ctx_stack.pop(); app_ctx.pop(exc) if there is one
RequestContext_pop_finally(td, r, app_ctx, exc, amb, bad) ==
    RequestContext_pop_assert(
        IF app_ctx # None
        THEN AppContext_pop(Unbound(td.st, "_request_ctx_stack.pop", td.st.request_ctx_stack,
                                    [td.st EXCEPT !.request_ctx_stack = LocalStack_pop(@).stack]),
                            app_ctx, exc, IF td.err # None THEN td.err ELSE amb, bad)
        ELSE Ok(Unbound(td.st, "_request_ctx_stack.pop", td.st.request_ctx_stack,
                        [td.st EXCEPT !.request_ctx_stack = LocalStack_pop(@).stack])),
        td.err, LocalStack_pop(td.st.request_ctx_stack).rv, r)

\* try: teardown if this was the last level of nesting
\* the try block with the test of the nesting level left out
RequestContext_pop_try_every(st, r, app_ctx, exc, amb, bad) ==
    RequestContext_pop_finally(
        do_teardown_request([st EXCEPT !.preserved[r] = FALSE, !.preserved_exc[r] = None],
                            r, IF exc = Sentinel THEN amb ELSE exc, bad),
        r, app_ctx, IF exc = Sentinel THEN amb ELSE exc, amb, bad)

\* pop that takes the context off the stack before it runs the teardown
RequestContext_pop_try_unbinding_first(st, r, app_ctx, exc, amb, bad) ==
    IF st.implicit_app_ctx_stack[r] = <<>>
    THEN LET td == do_teardown_request(
                       Unbound(st, "_request_ctx_stack.pop", st.request_ctx_stack,
                               [st EXCEPT !.preserved[r] = FALSE, !.preserved_exc[r] = None,
                                          !.request_ctx_stack = LocalStack_pop(@).stack]),
                       r, IF exc = Sentinel THEN amb ELSE exc, bad)
         IN  RequestContext_pop_assert(
                 IF app_ctx # None
                 THEN AppContext_pop(td.st, app_ctx, IF exc = Sentinel THEN amb ELSE exc,
                                     IF td.err # None THEN td.err ELSE amb, bad)
                 ELSE Ok(td.st),
                 td.err, LocalStack_pop(st.request_ctx_stack).rv, r)
    ELSE RequestContext_pop_finally(Ok(st), r, app_ctx, exc, amb, bad)

RequestContext_pop_try(st, r, app_ctx, exc, amb, bad) ==
    IF st.implicit_app_ctx_stack[r] = <<>>
    THEN RequestContext_pop_finally(
             do_teardown_request([st EXCEPT !.preserved[r] = FALSE, !.preserved_exc[r] = None],
                                 r, IF exc = Sentinel THEN amb ELSE exc, bad),
             r, app_ctx, IF exc = Sentinel THEN amb ELSE exc, amb, bad)
    ELSE RequestContext_pop_finally(Ok(st), r, app_ctx, exc, amb, bad)

\* pop that compares the top of the stack with self before it does anything
RequestContext_pop_checked_first(st, r, exc, amb, bad) ==
    IF st.implicit_app_ctx_stack[r] = <<>> THEN Raise(st, "IndexError")
    ELSE IF LocalStack_top(st.request_ctx_stack) # r
    THEN Raise(Logged(st, <<<<"RequestContext.pop", r, None, exc>>>>), "AssertionError")
    ELSE RequestContext_pop_try(
             [st EXCEPT !.implicit_app_ctx_stack[r] = Front(@), !.pushes[r] = @ - 1,
                        !.log = Append(@, <<"RequestContext.pop", r, None, exc>>)],
             r, Last(st.implicit_app_ctx_stack[r]), exc, amb, bad)

RequestContext_pop(st, r, exc, amb, bad) ==
    IF st.implicit_app_ctx_stack[r] = <<>> THEN Raise(st, "IndexError")
    ELSE RequestContext_pop_try(
             [st EXCEPT !.implicit_app_ctx_stack[r] = Front(@), !.pushes[r] = @ - 1,
                        !.log = Append(@, <<"RequestContext.pop", r, None, exc>>)],
             r, Last(st.implicit_app_ctx_stack[r]), exc, amb, bad)

\* a push that takes any application context bound for its own
NeedsAppContext_if_none_bound(st, r) == LocalStack_top(st.app_ctx_stack) = None

\* whether push has to create an application context: none is bound, or the one
\* bound belongs to another application
NeedsAppContext(st, r) ==
    \/ LocalStack_top(st.app_ctx_stack) = None
    \/ CtxApp(LocalStack_top(st.app_ctx_stack)) # ReqApp(r)

\* app_ctx = self.app.app_context(); app_ctx.push()
PushImplicit(st, r, new) ==
    [AppContext_push([st EXCEPT !.refcnt[new] = 0, !.pushes[new] = 0], new)
        EXCEPT !.implicit_app_ctx_stack[r] = Append(@, new)]

\* match_request: the rule is stored on the request, or the HTTPException
\* that match() raised is stored as request.routing_exception
RequestContext_match_request(st, r) ==
    IF st.url_adapter[r] = Matched THEN st
    ELSE [st EXCEPT !.routing_exception[r] = st.url_adapter[r]]

\* the session object a push opens, named after the context that opens it:
\* what open_session returns, or a null session if it returns None
OpenedSession(opened) ==
    IF opened = {} THEN make_null_session ELSE CHOOSE s \in opened : TRUE

\* if self.session is None: self.session = session_interface.open_session(...)
RequestContext_open_session(st, r) ==
    IF st.session[r] # None THEN st
    ELSE [st EXCEPT !.session[r] = r,
                    !.sessions[r] = OpenedSession(SecureCookieSessionInterface_open_session(st, r)),
                    !.log = Append(@, <<"open_session", r, None, None>>)]

\* push, from the application context on: lines 461-489
RequestContext_push_self(st, r) ==
    RequestContext_match_request(
        RequestContext_open_session(
            [(IF NeedsAppContext(st, r)
              THEN PushImplicit(st, r, app_context(st, ReqApp(r)))
              ELSE [st EXCEPT !.implicit_app_ctx_stack[r] = Append(@, None)])
                EXCEPT !.request_ctx_stack = LocalStack_push(@, r),
                       !.pushes[r] = @ + 1,
                       !.log = Append(@, <<"RequestContext.push", r, None, None>>)],
            r),
        r)

\* whether the top of the request stack is a preserved context
TopPreserved(st) ==
    /\ LocalStack_top(st.request_ctx_stack) # None
    /\ st.preserved[LocalStack_top(st.request_ctx_stack)]

\* top.pop(top._preserved_exc)
PopTop(st, amb, bad) ==
    RequestContext_pop(st, LocalStack_top(st.request_ctx_stack),
                       st.preserved_exc[LocalStack_top(st.request_ctx_stack)], amb, bad)

RequestContext_push_rest(forced, r) ==
    IF forced.err # None THEN forced ELSE Ok(RequestContext_push_self(forced.st, r))

RequestContext_push(st, r, amb, bad) ==
    RequestContext_push_rest(IF TopPreserved(st) THEN PopTop(st, amb, bad) ELSE Ok(st), r)

\* whether push can construct the application context it needs within the model's bounds
CanPushSelf(st, r) ==
    ~NeedsAppContext(st, r) \/ FreeAppContexts(st, ReqApp(r)) # {}

CanPush(st, r) ==
    CanPushSelf(IF TopPreserved(st) THEN PopTop(st, None, {}).st ELSE st, r)

\* auto_pop preserving the context only for the flag of the environ
RequestContext_auto_pop_flag_only(st, r, exc, amb, bad) ==
    IF preserve_context(r)
    THEN Ok([st EXCEPT !.preserved[r] = TRUE, !.preserved_exc[r] = exc,
                       !.log = Append(@, <<"RequestContext.auto_pop", r, None, exc>>)])
    ELSE RequestContext_pop(Logged(st, <<<<"RequestContext.auto_pop", r, None, exc>>>>),
                            r, exc, amb, bad)

RequestContext_auto_pop(st, r, exc, amb, bad) ==
    IF preserve_context(r) \/ (exc # None /\ preserve_on_exc)
    THEN Ok([st EXCEPT !.preserved[r] = TRUE, !.preserved_exc[r] = exc,
                       !.log = Append(@, <<"RequestContext.auto_pop", r, None, exc>>)])
    ELSE RequestContext_pop(Logged(st, <<<<"RequestContext.auto_pop", r, None, exc>>>>),
                            r, exc, amb, bad)

\* RequestContext.__init__: the fields of a newly constructed context
RequestContext_init(st, r) ==
    [st EXCEPT !.implicit_app_ctx_stack[r] = <<>>,
               !.preserved[r] = FALSE,
               !.preserved_exc[r] = None,
               !.url_adapter[r] = Matched,
               !.routing_exception[r] = None,
               !.ctx_after_request_functions[r] = <<>>,
               !.session[r] = None,
               !.cookie[r] = {},
               !.pushes[r] = 0]

\* copy: self.__class__(self.app, environ=self.request.environ,
\* request=self.request, session=self.session), as the instance c
RequestContext_copy(st, r, c) ==
    [RequestContext_init(st, c) EXCEPT !.session[c] = st.session[r],
                                       !.cookie[c] = st.cookie[r],
                                       !.url_adapter[c] = st.url_adapter[r],
                                       !.routing_exception[c] = st.routing_exception[r]]

\* Flask.request_context(environ) for an environ whose URL the adapter answers with route
Flask_request_context(st, r, route) == [RequestContext_init(st, r) EXCEPT !.url_adapter[r] = route]

(***************************************************************************)
(* Error handlers: Flask.error_handler_spec, _register_error_handler and   *)
(* _find_error_handler (app.py).  A status code is written as a string.    *)
(***************************************************************************)
\* the exception classes: those of werkzeug the code names, and the application's
Classes ==
    {"Exception", "HTTPException", "NotFound", "InternalServerError", "Archived",
     "KeyError", "RuntimeError", "RoutingException", "RequestRedirect"}

\* the base class of a class; Archived is a class of the application derived
\* from NotFound that sets its own code; RequestRedirect has the two bases
\* HTTPException and RoutingException
Base(c) ==
    CASE c = "HTTPException" -> "Exception"
      [] c = "NotFound" -> "HTTPException"
      [] c = "InternalServerError" -> "HTTPException"
      [] c = "Archived" -> "NotFound"
      [] OTHER -> "Exception"

\* cls.__mro__, as far as Exception
RECURSIVE mro(_)
mro(c) ==
    IF c = "Exception" THEN <<c>>
    ELSE IF c = "RequestRedirect"
    THEN <<"RequestRedirect", "HTTPException", "RoutingException", "Exception">>
    ELSE <<c>> \o mro(Base(c))

issubclass(c, d) == d \in Range(mro(c))

\* the code attribute of an exception class
class_code(c) ==
    CASE c = "NotFound" -> "404"
      [] c = "InternalServerError" -> "500"
      [] c = "Archived" -> "410"
      [] c = "RequestRedirect" -> "308"
      [] OTHER -> None

\* werkzeug.exceptions.default_exceptions: status code -> class
default_exceptions == [code \in {"404", "500"} |-> IF code = "404" THEN "NotFound"
                                                   ELSE "InternalServerError"]

Codes == {"308", "404", "410", "500"}

\* the scopes of the registries: the application (None) and its blueprint
Scopes == {None, "bp"}

\* what a handler can be registered for: a status code or an exception class
HandlerKeys == DOMAIN default_exceptions \cup Classes

\* a handler function, named by its registration
Handler(scope, key) == <<scope, key>>

\* None where a handler is expected
NoHandler == <<>>

Flask_get_exc_class_and_code(exc_class_or_code) ==
    IF exc_class_or_code \in DOMAIN default_exceptions
    THEN [exc_class |-> default_exceptions[exc_class_or_code],
          code |-> class_code(default_exceptions[exc_class_or_code])]
    ELSE [exc_class |-> exc_class_or_code,
          code |-> IF issubclass(exc_class_or_code, "HTTPException")
                   THEN class_code(exc_class_or_code) ELSE None]

\* error_handler_spec = {}
NoHandlers == [name \in Scopes |-> [c \in Codes \cup {None} |-> [cls \in Classes |-> NoHandler]]]

\* handlers = self.error_handler_spec.setdefault(key, {}).setdefault(code, {})
\* handlers[exc_class] = f
Flask_register_error_handler(spec, key, code_or_exception, f) ==
    [spec EXCEPT ![key][Flask_get_exc_class_and_code(code_or_exception).code]
                      [Flask_get_exc_class_and_code(code_or_exception).exc_class] = f]

\* for cls in exc_class.__mro__: the first class handler_map has a handler for
RECURSIVE FirstHandler(_, _)
FirstHandler(handler_map, classes) ==
    IF classes = <<>> THEN NoHandler
    ELSE IF handler_map[Head(classes)] # NoHandler THEN handler_map[Head(classes)]
    ELSE FirstHandler(handler_map, Tail(classes))

\* for name, c in (...): the handler of the first map that has one
RECURSIVE FindIn(_, _, _)
FindIn(spec, places, classes) ==
    IF places = <<>> THEN NoHandler
    ELSE IF FirstHandler(spec[Head(places)[1]][Head(places)[2]], classes) # NoHandler
    THEN FirstHandler(spec[Head(places)[1]][Head(places)[2]], classes)
    ELSE FindIn(spec, Tail(places), classes)

\* the places searched, in order
Places(bp, code) == <<<<bp, code>>, <<None, code>>, <<bp, None>>, <<None, None>>>>

\* bp is request.blueprint, exc_class is type(e)
Flask_find_error_handler(spec, bp, exc_class) ==
    FindIn(spec, Places(bp, Flask_get_exc_class_and_code(exc_class).code), mro(exc_class))

(***************************************************************************)
(* The first-request gate and the setup methods (app.py).                  *)
(***************************************************************************)
\* the threads that handle requests
Threads == {"t1", "t2"}

\* Flask.before_first_request_funcs, in registration order
before_first_request_funcs == <<"f1", "f2">>

\* the arguments of add_url_rule
Rules == {"/a"}

Endpoints == {"e1", "e2"}

ViewFuncs == {"v1", "v2"}

\* the view function as_view makes of a class-based view, which carries the
\* attributes of the class: it names its methods, switches the automatic
\* OPTIONS off and answers OPTIONS itself
ClassViews == {"v3"}

\* getattr(view_func, name, None) for the attributes add_url_rule reads: a
\* set with the value, or the empty set where the attribute is None or missing
ViewAttr ==
    [view_func \in ViewFuncs \cup ClassViews \cup {None} |->
        [methods |-> IF view_func \in ClassViews THEN {{"POST"}} ELSE {},
         provide_automatic_options |-> IF view_func \in ClassViews THEN {FALSE} ELSE {},
         required_methods |-> IF view_func \in ClassViews THEN {"OPTIONS"} ELSE {}]]

\* a wrapper that never raises
setupmethod_never(dbg, got) == FALSE

\* setupmethod: whether the wrapper raises instead of calling the method
setupmethod_raises(dbg, got) == dbg /\ got

(***************************************************************************)
(* The pipeline of one request (app.py): wsgi_app and what it calls.  An   *)
(* outcome is the state left, the exception raised (or None) and the value *)
(* returned.  b is the behaviour of the application's callbacks during the *)
(* request: b.view is what the view function does, b.bad the callbacks     *)
(* that raise, b.early the before-request functions that return a value.   *)
(***************************************************************************)
\* Flask.before_request_funcs: scope -> functions in registration order
before_request_funcs ==
    [sc \in Scopes |-> IF sc = None THEN <<"A", "B">> ELSE <<"bA", "bB">>]

\* Flask.after_request_funcs: scope -> functions in registration order
after_request_funcs ==
    [sc \in Scopes |-> IF sc = None THEN <<"C", "D">> ELSE <<"bC", "bD">>]

\* what a view function does: it returns a value, it returns a generator made
\* by stream_with_context, or it raises an exception of a class
ViewOutcomes == {"ok", "stream", "KeyError", "NotFound"}

\* the exception a callback of the application raises
CallbackError == "RuntimeError"

\* the return value None of a callback
NoValue == <<>>

\* no response: the call raised
NoResponse == [body |-> NoValue, via |-> <<>>]

Returns(st, rv) == [st |-> st, err |-> None, rv |-> rv]

Raises(st, e) == [st |-> st, err |-> e, rv |-> NoValue]

\* make_response: if rv is None: raise TypeError
make_response_raises(rv) == rv = NoValue

\* make_response of a value a view or a handler may return, or of an HTTPException
Flask_make_response(rv) == [body |-> rv, via |-> <<>>]

\* what a callback returns: None if it is one of b.none, or else the value rv
ValueOf(f, b, rv) == IF f \in b.none THEN NoValue ELSE rv

\* for func in self.before_first_request_funcs: func(); self._got_first_request = True
RunFirstRequestFuncs(st, r, b) ==
    IF Range(before_first_request_funcs) \cap b.bad # {}
    THEN Raises(Logged(st, Events("before_first_request", r,
                                  UpTo(before_first_request_funcs, b.bad), None)),
                CallbackError)
    ELSE Returns([Logged(st, Events("before_first_request", r,
                                    before_first_request_funcs, None))
                     EXCEPT !.got_first_request = TRUE], NoValue)

\* try_trigger_before_first_request_functions, called by one thread at a time
Flask_try_trigger_before_first_request_functions(st, r, b) ==
    IF st.got_first_request THEN Returns(st, NoValue) ELSE RunFirstRequestFuncs(st, r, b)

\* funcs = self.before_request_funcs.get(None, ()), chained with the blueprint's
BeforeRequestFuncs(bp) ==
    before_request_funcs[None]
    \o (IF bp # None /\ bp \in DOMAIN before_request_funcs
        THEN before_request_funcs[bp] ELSE <<>>)

\* the loop with the value of the last function called dropped
PreprocessResult_ignoring_value(st, called, b) ==
    IF called # <<>> /\ Last(called) \in b.bad THEN Raises(st, CallbackError)
    ELSE Returns(st, NoValue)

\* the result of the loop, given the functions called
PreprocessResult(st, called, b) ==
    IF called # <<>> /\ Last(called) \in b.bad THEN Raises(st, CallbackError)
    ELSE IF called # <<>> /\ Last(called) \in b.early
    THEN Returns(st, <<"before_request", Last(called)>>)
    ELSE Returns(st, NoValue)

PreprocessLoop(st, top, called, b) ==
    PreprocessResult(Logged(st, Events("before_request", top, called, None)), called, b)

\* preprocess_request: for func in funcs: rv = func(); if rv is not None: return rv
Flask_preprocess_request(st, b) ==
    IF LocalStack_top(st.request_ctx_stack) = None THEN Raises(st, "AttributeError")
    ELSE PreprocessLoop(st, LocalStack_top(st.request_ctx_stack),
                        UpTo(BeforeRequestFuncs(Request_blueprint(st, LocalStack_top(st.request_ctx_stack))),
                             b.bad \cup b.early),
                        b)

\* the result of the push a generator of stream_with_context makes
StreamResult(pushed, r) ==
    IF pushed.err # None THEN Raises(pushed.st, pushed.err)
    ELSE Returns(Logged(pushed.st, <<<<"stream_with_context", r, None, None>>>>),
                 <<"stream", r>>)

\* after_this_request(f): _request_ctx_stack.top._after_request_functions.append(f)
after_this_request(st, r, fs) == [st EXCEPT !.ctx_after_request_functions[r] = @ \o fs]

\* a view that does b.view with flask.session, the session of the top context
SessionView(st, r, b) ==
    IF SessionOpFails(st.sessions[st.session[r]], b.view) THEN Raises(st, "RuntimeError")
    ELSE Returns([st EXCEPT !.sessions[st.session[r]] = SecureCookieSession_apply(@, b.view)],
                 <<"view", r>>)

\* what the view function does after the calls of after_this_request it makes
ViewBody(st, r, b) ==
    IF b.view = "ok" THEN Returns(st, ValueOf("view", b, <<"view", r>>))
    ELSE IF b.view \in SessionOps THEN SessionView(st, r, b)
    ELSE IF b.view = "stream" THEN StreamResult(RequestContext_push(st, r, None, b.bad), r)
    ELSE Raises(st, b.view)

\* the view function of the request's endpoint is called
CallView(st, r, b) == ViewBody(after_this_request(st, r, b.after_this), r, b)

\* raise_routing_exception, for a request whose method is GET, HEAD or OPTIONS
Flask_raise_routing_exception(st, r) ==
    Raises(Logged(st, <<<<"raise_routing_exception", r, None, st.routing_exception[r]>>>>),
           st.routing_exception[r])

\* dispatch_request calling the view whatever the routing did
DispatchTop_ignoring_routing(st, r, b) ==
    CallView(Logged(st, <<<<"view", r, "view", None>>>>), r, b)

\* the rest of dispatch_request, with the request on top of the stack
DispatchTop(st, r, b) ==
    IF st.routing_exception[r] # None THEN Flask_raise_routing_exception(st, r)
    ELSE CallView(Logged(st, <<<<"view", r, "view", None>>>>), r, b)

\* dispatch_request: return self.view_functions[rule.endpoint](**req.view_args)
Flask_dispatch_request(st, b) ==
    IF LocalStack_top(st.request_ctx_stack) = None THEN Raises(st, "AttributeError")
    ELSE DispatchTop(st, LocalStack_top(st.request_ctx_stack), b)

\* handler(e): the handler returns a value or raises
CallHandler(st, top, handler, e, b) ==
    IF "errorhandler" \in b.bad
    THEN Raises(Logged(st, <<<<"errorhandler", top, handler[2], e>>>>), CallbackError)
    ELSE Returns(Logged(st, <<<<"errorhandler", top, handler[2], e>>>>),
                 ValueOf("errorhandler", b, <<"errorhandler", handler[1], handler[2]>>))

\* handle_http_exception once request.blueprint is known
HandleHttp(st, top, handler, e, b) ==
    IF handler = NoHandler THEN Returns(st, <<"exception", e>>)
    ELSE CallHandler(st, top, handler, e, b)

\* handle_http_exception: an exception without a code and a RoutingException
\* are returned unchanged
Flask_handle_http_exception(st, e, b) ==
    IF class_code(e) = None THEN Returns(st, <<"exception", e>>)
    ELSE IF issubclass(e, "RoutingException") THEN Returns(st, <<"exception", e>>)
    ELSE IF LocalStack_top(st.request_ctx_stack) = None THEN Raises(st, "RuntimeError")
    ELSE HandleHttp(st, LocalStack_top(st.request_ctx_stack),
                    Flask_find_error_handler(error_handler_spec,
                        Request_blueprint(st, LocalStack_top(st.request_ctx_stack)), e),
                    e, b)

\* trap_http_exception, for the classes of the model (none is a BadRequest)
Flask_trap_http_exception(e) == trap_http_exceptions

\* handle_user_exception once the handler is looked up
HandleUser(st, top, handler, e, b) ==
    IF handler = NoHandler THEN Raises(st, e)
    ELSE CallHandler(st, top, handler, e, b)

\* the body of handle_user_exception
HandleUserException(st, e, b) ==
    IF issubclass(e, "HTTPException") /\ ~Flask_trap_http_exception(e)
    THEN Flask_handle_http_exception(st, e, b)
    ELSE IF LocalStack_top(st.request_ctx_stack) = None THEN Raises(st, "RuntimeError")
    ELSE HandleUser(st, LocalStack_top(st.request_ctx_stack),
                    Flask_find_error_handler(error_handler_spec,
                        Request_blueprint(st, LocalStack_top(st.request_ctx_stack)), e),
                    e, b)

\* handle_user_exception: returns a value or re-raises e
Flask_handle_user_exception(st, e, b) ==
    HandleUserException(Logged(st, <<<<"handle_user_exception", None, None, e>>>>), e, b)

\* the after-request functions of the application's scopes in registration order:
\* a variant of AfterRequestFuncs
AfterRequestFuncs_registration_order(bp) ==
    (IF bp # None /\ bp \in DOMAIN after_request_funcs
     THEN after_request_funcs[bp] ELSE <<>>)
    \o (IF None \in DOMAIN after_request_funcs
        THEN after_request_funcs[None] ELSE <<>>)

\* reversed(self.after_request_funcs[bp]) chained with
\* reversed(self.after_request_funcs[None])
AfterRequestFuncs(bp) ==
    (IF bp # None /\ bp \in DOMAIN after_request_funcs
     THEN Reverse(after_request_funcs[bp]) ELSE <<>>)
    \o (IF None \in DOMAIN after_request_funcs
        THEN Reverse(after_request_funcs[None]) ELSE <<>>)

\* the functions of the context called after those of the application
ProcessFuncs_hooks_first(ctx_funcs, bp) == AfterRequestFuncs(bp) \o ctx_funcs

\* funcs = ctx._after_request_functions, chained with the after-request functions
ProcessFuncs(ctx_funcs, bp) == ctx_funcs \o AfterRequestFuncs(bp)

\* for handler in funcs: response = handler(response)
ProcessLoop(st, top, funcs, response, b) ==
    IF Range(funcs) \cap b.bad # {}
    THEN Raises(Logged(st, Events("after_request", top, UpTo(funcs, b.bad), None)),
                CallbackError)
    ELSE Returns(Logged(st, Events("after_request", top, funcs, None)),
                 [response EXCEPT !.via = @ \o funcs])

\* if not self.session_interface.is_null_session(ctx.session): save_session(...)
ProcessSave(looped, top) ==
    IF looped.err # None THEN looped
    ELSE IF is_null_session(looped.st.sessions[looped.st.session[top]]) THEN looped
    ELSE [looped EXCEPT !.st = SecureCookieSessionInterface_save_session(
                                   Logged(looped.st, <<<<"save_session", top, None, None>>>>),
                                   top, looped.st.sessions[looped.st.session[top]])]

\* process_response: ctx = _request_ctx_stack.top; bp = ctx.request.blueprint
Flask_process_response(st, response, b) ==
    IF LocalStack_top(st.request_ctx_stack) = None THEN Raises(st, "AttributeError")
    ELSE ProcessSave(
             ProcessLoop(st, LocalStack_top(st.request_ctx_stack),
                         ProcessFuncs(st.ctx_after_request_functions[LocalStack_top(st.request_ctx_stack)],
                                      Request_blueprint(st, LocalStack_top(st.request_ctx_stack))),
                         response, b),
             LocalStack_top(st.request_ctx_stack))

\* except Exception: if not from_error_handler: raise; return response
FinalizeResult(processed, response, from_error_handler) ==
    IF processed.err # None /\ from_error_handler THEN Returns(processed.st, response)
    ELSE processed

\* finalize_request: response = self.make_response(rv); try: process_response
Flask_finalize_request(st, rv, from_error_handler, b) ==
    IF make_response_raises(rv) THEN Raises(st, "TypeError")
    ELSE FinalizeResult(Flask_process_response(st, Flask_make_response(rv), b),
                   Flask_make_response(rv), from_error_handler)

\* the 500 response returned without finalize_request
HandleServerError_unfinalized(handled, b) ==
    IF handled.err # None THEN handled
    ELSE Returns(handled.st, Flask_make_response(handled.rv))

\* if handler is not None: server_error = handler(server_error)
\* return self.finalize_request(server_error, from_error_handler=True)
HandleServerError(handled, b) ==
    IF handled.err # None THEN handled
    ELSE Flask_finalize_request(handled.st, handled.rv, TRUE, b)

\* handle_exception: re-raises e if propagate_exceptions, or makes the 500 response
Flask_handle_exception(st, e, b) ==
    IF propagate_exceptions THEN Raises(st, e)
    ELSE IF LocalStack_top(st.request_ctx_stack) = None THEN Raises(st, "RuntimeError")
    ELSE HandleServerError(
             HandleHttp(st, LocalStack_top(st.request_ctx_stack),
                        Flask_find_error_handler(error_handler_spec,
                            Request_blueprint(st, LocalStack_top(st.request_ctx_stack)),
                            "InternalServerError"),
                        "InternalServerError", b),
             b)

\* dispatch_request outside of the try
DispatchOrHandle_uncaught(dispatched_rv, b) == dispatched_rv

\* except Exception as e: rv = self.handle_user_exception(e)
DispatchOrHandle(dispatched_rv, b) ==
    IF dispatched_rv.err # None
    THEN Flask_handle_user_exception(dispatched_rv.st, dispatched_rv.err, b)
    ELSE dispatched_rv

\* rv = self.preprocess_request(); if rv is None: rv = self.dispatch_request()
FullDispatchTry(pre, b) ==
    IF pre.err # None THEN Flask_handle_user_exception(pre.st, pre.err, b)
    ELSE IF pre.rv # NoValue THEN pre
    ELSE DispatchOrHandle(Flask_dispatch_request(pre.st, b), b)

\* return self.finalize_request(rv)
FullDispatchFinalize(handled, b) ==
    IF handled.err # None THEN handled
    ELSE Flask_finalize_request(handled.st, handled.rv, FALSE, b)

FullDispatchRest(triggered, b) ==
    IF triggered.err # None THEN triggered
    ELSE FullDispatchFinalize(FullDispatchTry(Flask_preprocess_request(triggered.st, b), b), b)

\* full_dispatch_request of the request of context r
Flask_full_dispatch_request(st, r, b) ==
    FullDispatchRest(Flask_try_trigger_before_first_request_functions(st, r, b), b)

\* the except clause without error = e
WsgiExcept_error_unset(res, b) ==
    IF res.err # None
    THEN [res |-> Flask_handle_exception(
                      Logged(res.st, <<<<"handle_exception", None, None, res.err>>>>),
                      res.err, b),
          error |-> None]
    ELSE [res |-> res, error |-> None]

\* except Exception as e: error = e; response = self.handle_exception(e)
\* the outcome and the value of error
WsgiExcept(res, b) ==
    IF res.err # None
    THEN [res |-> Flask_handle_exception(
                      Logged(res.st, <<<<"handle_exception", None, None, res.err>>>>),
                      res.err, b),
          error |-> res.err]
    ELSE [res |-> res, error |-> None]

\* ctx.push(); response = self.full_dispatch_request()
WsgiTry(pushed, r, b) ==
    IF pushed.err # None THEN Raises(pushed.st, pushed.err)
    ELSE Flask_full_dispatch_request(pushed.st, r, b)

\* the finally clause skipped when the call raised: a variant of wsgi_app_finally
wsgi_app_finally_unless_raised(tried, popped) ==
    IF tried.res.err # None THEN tried.res
    ELSE IF popped.err # None THEN Raises(popped.st, popped.err)
    ELSE [tried.res EXCEPT !.st = popped.st]

\* finally: ctx.auto_pop(error); an exception of the finally clause replaces the outcome
wsgi_app_finally(tried, popped) ==
    IF popped.err # None THEN Raises(popped.st, popped.err)
    ELSE [tried.res EXCEPT !.st = popped.st]

WsgiFinally(tried, r, b) ==
    wsgi_app_finally(tried, RequestContext_auto_pop(tried.res.st, r, tried.error, None, b.bad))

\* wsgi_app for the request of the newly made context r
Flask_wsgi_app(st, r, b) ==
    WsgiFinally(WsgiExcept(WsgiTry(RequestContext_push(st, r, None, b.bad), r, b), b), r, b)

(***************************************************************************)
(* The operations of one thread on its contexts.                           *)
(***************************************************************************)
\* the arguments a caller gives for exc, and the exception being handled there
ExcArgs == {Sentinel, None} \cup Exceptions

Ambient(exc) == IF exc = Sentinel THEN {None} \cup Exceptions ELSE {None}

InBounds(st, max) ==
    /\ Len(st.app_ctx_stack) <= max
    /\ Len(st.request_ctx_stack) <= max
    /\ \A a \in AppContexts : st.refcnt[a] >= 0 - max /\ st.refcnt[a] <= max
    /\ \A r \in RequestContexts : Len(st.implicit_app_ctx_stack[r]) <= max

\* the behaviour recorded for an operation that runs no callback of a request
NoBehaviour ==
    [view |-> "none", bad |-> {}, early |-> {}, none |-> {}, route |-> Matched,
     after_this |-> <<>>]

\* the context variables after an operation op on ctx with outcome res
CtxBecomes(op, ctx, res, sc, max, b, rv) ==
    /\ InBounds(res.st, max)
    /\ Len(sc) <= max
    /\ scopes' = sc
    /\ app_ctx_stack' = res.st.app_ctx_stack
    /\ request_ctx_stack' = res.st.request_ctx_stack
    /\ refcnt' = res.st.refcnt
    /\ implicit_app_ctx_stack' = res.st.implicit_app_ctx_stack
    /\ preserved' = res.st.preserved
    /\ preserved_exc' = res.st.preserved_exc
    /\ url_adapter' = res.st.url_adapter
    /\ routing_exception' = res.st.routing_exception
    /\ ctx_after_request_functions' = res.st.ctx_after_request_functions
    /\ session' = res.st.session
    /\ sessions' = res.st.sessions
    /\ cookie' = res.st.cookie
    /\ pushes' = res.st.pushes
    /\ last' = [op |-> op, ctx |-> ctx, err |-> res.err, log |-> res.st.log,
                before |-> [app_ctx_stack |-> app_ctx_stack,
                            request_ctx_stack |-> request_ctx_stack],
                b |-> b, rv |-> rv]

\* the variables after an operation of a context
Becomes(op, ctx, res, sc, max) ==
    /\ CtxBecomes(op, ctx, res, sc, max, NoBehaviour, NoResponse)
    /\ UNCHANGED <<cfgVars, pureVars, errVars, firstVars>>

\* a context object nothing on the thread refers to any more
Unreferenced(r) ==
    /\ r \notin Range(request_ctx_stack)
    /\ \A i \in 1..Len(scopes) : scopes[i][2] # r

\* the state with r newly constructed, if r names no live object
Constructed(r) == IF Unreferenced(r) THEN RequestContext_init(State, r) ELSE State

TopScope == IF scopes = <<>> THEN <<None, None>> ELSE Last(scopes)

\* with ctx: (RequestContext.__enter__), ctx new or one already in use
ReqEnter(r) ==
    /\ CanPush(Constructed(r), r)
    /\ \E bad \in BadSets :
        LET res == RequestContext_push(Constructed(r), r, None, bad)
        IN  Becomes("RequestContext.push", r, res,
                    IF res.err = None THEN Append(scopes, <<"request", r>>) ELSE scopes,
                    MaxStack)
    /\ UNCHANGED errors

\* the end of the innermost with block of a request context (RequestContext.__exit__)
ReqExit ==
    /\ TopScope[1] = "request"
    /\ \E exc \in {None} \cup Exceptions, bad \in BadSets :
        Becomes("RequestContext.auto_pop", TopScope[2],
                RequestContext_auto_pop(State, TopScope[2], exc, exc, bad), Front(scopes),
                MaxStack)
    /\ UNCHANGED errors

\* the deferred cleanup of a test client: top.pop() while the top is preserved
PopPreserved ==
    /\ TopPreserved(State)
    /\ \E bad \in BadSets :
        Becomes("RequestContext.pop", LocalStack_top(request_ctx_stack),
                RequestContext_pop(State, LocalStack_top(request_ctx_stack), Sentinel, None, bad),
                scopes, MaxStack)
    /\ UNCHANGED errors

InitCtx ==
    /\ app_ctx_stack = <<>>
    /\ request_ctx_stack = <<>>
    /\ refcnt = [a \in AppContexts |-> 0]
    /\ implicit_app_ctx_stack = [r \in RequestContexts |-> <<>>]
    /\ preserved = [r \in RequestContexts |-> FALSE]
    /\ preserved_exc = [r \in RequestContexts |-> None]
    /\ url_adapter = [r \in RequestContexts |-> Matched]
    /\ routing_exception = [r \in RequestContexts |-> None]
    /\ ctx_after_request_functions = [r \in RequestContexts |-> <<>>]
    /\ session = [r \in RequestContexts |-> None]
    /\ sessions = [r \in RequestContexts |-> SecureCookieSession({})]
    /\ cookie = [r \in RequestContexts |-> {}]
    /\ pushes = [c \in RequestContexts \cup AppContexts |-> 0]
    /\ scopes = <<>>
    /\ errors = 0
    /\ last = [op |-> "init", ctx |-> None, err |-> None, log |-> <<>>,
               before |-> [app_ctx_stack |-> <<>>, request_ctx_stack |-> <<>>],
               b |-> NoBehaviour, rv |-> NoResponse]

\* no handler registered, no lookup made
InitErr ==
    /\ error_handler_spec = NoHandlers
    /\ found = [exc_class |-> None, blueprint |-> None, handler |-> NoHandler]

\* no request has arrived, no route is registered
InitFirst ==
    /\ got_first_request = FALSE
    /\ before_request_lock = None
    /\ pc = [t \in Threads |-> "idle"]
    /\ hook_index = [t \in Threads |-> 1]
    /\ requests = 0
    /\ stops = 0
    /\ first_runs = [f \in Range(before_first_request_funcs) |-> 0]
    /\ passed = FALSE
    /\ dispatched = FALSE
    /\ url_map = <<>>
    /\ view_functions = [e \in Endpoints |-> None]
    /\ setup = [op |-> "init", err |-> None, passed |-> FALSE, dispatched |-> FALSE,
                url_map |-> <<>>, view_functions |-> [e \in Endpoints |-> None],
                args |-> <<>>]

Init ==
    /\ InitCtx
    /\ call = NoCall
    /\ InitErr
    /\ InitFirst
    /\ preserve_on_exc \in BOOLEAN
    /\ debug = FALSE
    /\ secret_key = FALSE
    /\ session_refresh_each_request = TRUE
    /\ propagate_exceptions = FALSE
    /\ trap_http_exceptions = FALSE

Next ==
    \/ \E r \in Originals : ReqEnter(r)
    \/ ReqExit
    \/ PopPreserved

Spec == Init /\ [][Next]_vars

(***************************************************************************)
(* Requests served one after another by wsgi_app on one thread, with the   *)
(* generators of streamed responses closed later and preserved contexts    *)
(* popped by the next request or by the test client.                       *)
(***************************************************************************)
\* the sets of callbacks that raise during one request
BadCallbacks == {{}, {"f2"}, {"B"}, {"D"}, {"errorhandler"}, {"tr2"}}

\* the sets of before-request functions that return a value during one request
EarlyReturns == {{}, {"B"}}

Behaviours ==
    {b \in [view : ViewOutcomes, bad : BadCallbacks, early : EarlyReturns, none : {{}},
            route : {Matched}, after_this : {<<>>}] :
        b.bad = {} \/ b.early = {}}

\* the handlers the application registered before its first request
HandlerSpecs ==
    {NoHandlers,
     Flask_register_error_handler(
         Flask_register_error_handler(NoHandlers, None, "KeyError", Handler(None, "KeyError")),
         None, "500", Handler(None, "500"))}

\* whether the generator of the streamed response entered its with block
Streaming(res) == \E i \in 1..Len(res.st.log) : res.st.log[i][1] = "stream_with_context"

WsgiBecomes(r, b, res) ==
    /\ CtxBecomes("wsgi_app", r, res,
                  IF Streaming(res) THEN Append(scopes, <<"request", r>>) ELSE scopes,
                  MaxStack, b, IF res.err # None THEN NoResponse ELSE res.rv)
    /\ got_first_request' = res.st.got_first_request

\* the WSGI server calls wsgi_app(environ, start_response) for a new request
Wsgi(r, b) ==
    /\ Unreferenced(r)
    /\ CanPush(Flask_request_context(State, r, b.route), r)
    /\ WsgiBecomes(r, b, Flask_wsgi_app(Flask_request_context(State, r, b.route), r, b))
    /\ UNCHANGED <<errors, cfgVars, pureVars, errVars, before_request_lock, pc, hook_index, requests,
                   stops, first_runs, passed, dispatched, url_map, view_functions, setup>>

InitReq ==
    /\ InitCtx
    /\ call = NoCall
    /\ InitFirst
    /\ error_handler_spec \in HandlerSpecs
    /\ found = [exc_class |-> None, blueprint |-> None, handler |-> NoHandler]
    /\ preserve_on_exc \in BOOLEAN
    /\ debug = FALSE
    /\ secret_key = FALSE
    /\ session_refresh_each_request = TRUE
    /\ propagate_exceptions \in BOOLEAN
    /\ trap_http_exceptions = FALSE

NextReq ==
    \/ \E r \in Originals, b \in Behaviours : Wsgi(r, b)
    \/ ReqExit
    \/ PopPreserved

SpecReq == InitReq /\ [][NextReq]_vars

(***************************************************************************)
(* Single requests served by wsgi_app under every configuration of error   *)
(* handling, with requests whose URL matches no rule, callbacks that       *)
(* return None and views that call after_this_request.                     *)
(***************************************************************************)
\* the callbacks that raise, return early or return None: at most one of them
Deviations ==
    {d \in [bad : {{}, {"B"}, {"D"}, {"errorhandler"}}, early : {{}, {"A"}},
            none : {{}, {"view"}, {"errorhandler"}}] :
        Cardinality(d.bad \cup d.early \cup d.none) <= 1}

\* what url_adapter.match() does for the URL of a request
Routes == {Matched, "NotFound", "RequestRedirect"}

\* the functions a view passes to after_this_request, in order
AfterThis == {<<>>, <<"T1", "T2">>}

PipeBehaviours ==
    {b \in [view : ViewOutcomes, bad : {{}, {"B"}, {"D"}, {"errorhandler"}}, early : {{}, {"A"}},
            none : {{}, {"view"}, {"errorhandler"}}, route : Routes, after_this : AfterThis] :
        /\ [bad |-> b.bad, early |-> b.early, none |-> b.none] \in Deviations
        /\ b.route # Matched => (b.view = "ok" /\ b.after_this = <<>>)
        /\ b.after_this # <<>> => b.view \in {"ok", "KeyError"}}

\* the handlers the application registered: none, one for KeyError and one
\* for 500, or one for the base class Exception
PipeHandlerSpecs ==
    HandlerSpecs
    \cup {Flask_register_error_handler(NoHandlers, None, "Exception", Handler(None, "Exception"))}

\* wsgi_app is called for one of the requests drawn
Serve(r, b) ==
    /\ requests < MaxCalls
    /\ requests' = requests + 1
    /\ Unreferenced(r)
    /\ CanPush(Flask_request_context(State, r, b.route), r)
    /\ WsgiBecomes(r, b, Flask_wsgi_app(Flask_request_context(State, r, b.route), r, b))
    /\ UNCHANGED <<errors, cfgVars, pureVars, errVars, before_request_lock, pc, hook_index,
                   stops, first_runs, passed, dispatched, url_map, view_functions, setup>>

InitPipe ==
    /\ InitCtx
    /\ call = NoCall
    /\ InitFirst
    /\ error_handler_spec \in PipeHandlerSpecs
    /\ found = [exc_class |-> None, blueprint |-> None, handler |-> NoHandler]
    /\ preserve_on_exc = FALSE
    /\ debug = FALSE
    /\ secret_key = FALSE
    /\ session_refresh_each_request = TRUE
    /\ propagate_exceptions \in BOOLEAN
    /\ trap_http_exceptions \in BOOLEAN

NextPipe ==
    \/ \E r \in Originals, b \in PipeBehaviours : Serve(r, b)
    \/ ReqExit
    \/ PopPreserved

SpecPipe == InitPipe /\ [][NextPipe]_vars

(***************************************************************************)
(* Arbitrary sequences of pushes and pops: any context, on top of its      *)
(* stack or not, pushed or not, with no context preservation.              *)
(***************************************************************************)
\* the operation just done is counted if it raised
Counted ==
    /\ errors' = errors + (IF last'.err # None THEN 1 ELSE 0)
    /\ errors' <= MaxErrors

\* ctx.push() of an application context the caller holds
AppPush(a) ==
    /\ Becomes("AppContext.push", a, Ok(AppContext_push(State, a)), scopes, MaxStackArbitrary)
    /\ Counted

AppPop(a) ==
    /\ \E bad \in BadSets :
        Becomes("AppContext.pop", a, AppContext_pop(State, a, None, None, bad), scopes,
                MaxStackArbitrary)
    /\ Counted

ReqPush(r) ==
    /\ CanPush(State, r)
    /\ \E bad \in BadSets :
        Becomes("RequestContext.push", r, RequestContext_push(State, r, None, bad), scopes,
                MaxStackArbitrary)
    /\ Counted

ReqPop(r) ==
    /\ \E bad \in BadSets :
        Becomes("RequestContext.pop", r, RequestContext_pop(State, r, None, None, bad), scopes,
                MaxStackArbitrary)
    /\ Counted

InitStack ==
    /\ Init
    /\ preserve_on_exc = FALSE

NextStack ==
    \/ \E a \in AppContexts : AppPush(a)
    \/ \E a \in AppContexts : AppPop(a)
    \/ \E r \in Originals : ReqPush(r)
    \/ \E r \in Originals : ReqPop(r)

SpecStack == InitStack /\ [][NextStack]_vars

(***************************************************************************)
(* Pushes and pops of request contexts with every argument of pop: an      *)
(* error given or left to sys.exc_info(), at every depth of nesting, with  *)
(* contexts preserved by auto_pop, under an application context pushed by  *)
(* hand or under none.                                                     *)
(***************************************************************************)
\* the arguments of the operation, and the markers and the counts of the
\* contexts as it found them
Recorded(op, exc, amb) ==
    call' = [op |-> op, exc |-> exc, amb |-> amb,
             implicit_app_ctx_stack |-> implicit_app_ctx_stack, refcnt |-> refcnt]

\* ctx.push() of a request context the caller holds
PushRequest(r) ==
    /\ CanPush(State, r)
    /\ \E bad \in BadSets :
        CtxBecomes("RequestContext.push", r, RequestContext_push(State, r, None, bad), scopes,
                   MaxStackArbitrary, NoBehaviour, NoResponse)
    /\ Recorded("RequestContext.push", None, None)
    /\ Counted
    /\ UNCHANGED <<cfgVars, errVars, firstVars>>

\* ctx.pop(exc), or ctx.pop() where amb is the exception being handled
PopRequest(r) ==
    /\ \E exc \in ExcArgs, bad \in BadSets :
        \E amb \in Ambient(exc) :
            /\ CtxBecomes("RequestContext.pop", r, RequestContext_pop(State, r, exc, amb, bad),
                          scopes, MaxStackArbitrary, NoBehaviour, NoResponse)
            /\ Recorded("RequestContext.pop", exc, amb)
    /\ Counted
    /\ UNCHANGED <<cfgVars, errVars, firstVars>>

\* ctx.auto_pop(exc) at the end of a request or of a with block
AutoPopRequest(r) ==
    /\ \E exc \in {None} \cup Exceptions, bad \in BadSets :
        /\ CtxBecomes("RequestContext.auto_pop", r,
                      RequestContext_auto_pop(State, r, exc, exc, bad),
                      scopes, MaxStackArbitrary, NoBehaviour, NoResponse)
        /\ Recorded("RequestContext.auto_pop", exc, exc)
    /\ Counted
    /\ UNCHANGED <<cfgVars, errVars, firstVars>>

\* with app.app_context(): entered before any other context is bound
AppPushFirst(a) ==
    /\ app_ctx_stack = <<>>
    /\ AppPush(a)

NextNest ==
    \/ \E a \in AppContexts : AppPushFirst(a)
    \/ \E r \in Originals : PushRequest(r)
    \/ \E r \in Originals : PopRequest(r)
    \/ \E r \in Originals : AutoPopRequest(r)

SpecNest == Init /\ [][NextNest]_vars

(***************************************************************************)
(* One request served by wsgi_app, and the pops that follow it: the end of *)
(* the with block of a streamed response, and ctx.pop() of a context the   *)
(* request left on the stack, with an error given or left out.             *)
(***************************************************************************)
\* ctx.pop(...) of a context that is on the request stack
PopBound(r) ==
    /\ r \in Range(request_ctx_stack)
    /\ PopRequest(r)

NextTeardown ==
    \/ \E r \in Originals, b \in PipeBehaviours : Serve(r, b)
    \/ ReqExit
    \/ \E r \in Originals : PopBound(r)

SpecTeardown == InitPipe /\ [][NextTeardown]_vars

(***************************************************************************)
(* Requests whose views use flask.session, served by wsgi_app with and     *)
(* without a secret key, with and without a session cookie.                *)
(***************************************************************************)
\* the view does one operation with the session; an after-request function may raise
SessionBehaviours ==
    {[NoBehaviour EXCEPT !.view = op, !.bad = bad] : op \in SessionOps, bad \in {{}, {"D"}}}

\* the keys of the data a request brings in its session cookie: none without
\* a cookie or with one whose signature is bad
Cookies == SUBSET SessionKeys

\* Flask.request_context(environ) for an environ with such a cookie
RequestWithCookie(st, r, data) ==
    [Flask_request_context(st, r, Matched) EXCEPT !.cookie[r] = data]

\* wsgi_app is called for a request with a session cookie of the given data
ServeSession(r, b, data) ==
    /\ requests < MaxCalls
    /\ requests' = requests + 1
    /\ Unreferenced(r)
    /\ CanPush(RequestWithCookie(State, r, data), r)
    /\ Applicable(OpenedSession(SecureCookieSessionInterface_open_session(
                                    RequestWithCookie(State, r, data), r)),
                  b.view)
    /\ WsgiBecomes(r, b, Flask_wsgi_app(RequestWithCookie(State, r, data), r, b))
    /\ UNCHANGED <<errors, cfgVars, pureVars, errVars, before_request_lock, pc, hook_index,
                   stops, first_runs, passed, dispatched, url_map, view_functions, setup>>

InitSession ==
    /\ InitCtx
    /\ call = NoCall
    /\ InitErr
    /\ InitFirst
    /\ preserve_on_exc = FALSE
    /\ debug = FALSE
    /\ secret_key \in BOOLEAN
    /\ session_refresh_each_request \in BOOLEAN
    /\ propagate_exceptions = FALSE
    /\ trap_http_exceptions = FALSE

NextSession ==
    \/ \E r \in Originals, b \in SessionBehaviours, data \in Cookies : ServeSession(r, b, data)
    \/ PopPreserved

SpecSession == InitSession /\ [][NextSession]_vars

(***************************************************************************)
(* A request context and its copies: ctx = app.test_request_context() and  *)
(* c = ctx.copy(), pushed and popped in any order and copied again.        *)
(***************************************************************************)
\* the contexts of the one request: the original and its copy, or the reverse
CopyContexts == {"r1", "r3"}

\* c = r.copy(), bound to a name whose instance is not in use
Copy(r, c) ==
    /\ c # r
    /\ c \notin Range(request_ctx_stack)
    /\ pushes[c] = 0
    /\ Becomes("RequestContext.copy", c, Ok(RequestContext_copy(State, r, c)), scopes,
               MaxStackArbitrary)
    /\ UNCHANGED errors

\* neither context pushed yet; the application with or without a secret key
InitCopy ==
    /\ InitCtx
    /\ call = NoCall
    /\ InitErr
    /\ InitFirst
    /\ preserve_on_exc = FALSE
    /\ debug = FALSE
    /\ secret_key \in BOOLEAN
    /\ session_refresh_each_request = TRUE
    /\ propagate_exceptions = FALSE
    /\ trap_http_exceptions = FALSE

NextCopy ==
    \/ \E r \in CopyContexts : ReqPush(r)
    \/ \E r \in CopyContexts : ReqPop(r)
    \/ \E r \in CopyContexts, c \in CopyContexts : Copy(r, c)

SpecCopy == InitCopy /\ [][NextCopy]_vars

(***************************************************************************)
(* Registration and lookup of error handlers, outside of any request.      *)
(***************************************************************************)
\* the number of handlers registered
NumHandlers ==
    Cardinality({x \in Scopes \X (Codes \cup {None}) \X Classes :
                    error_handler_spec[x[1]][x[2]][x[3]] # NoHandler})

\* Flask.register_error_handler / Blueprint.register_error_handler
RegisterErrorHandler(key, code_or_exception) ==
    /\ error_handler_spec' = Flask_register_error_handler(
           error_handler_spec, key, code_or_exception, Handler(key, code_or_exception))
    /\ NumHandlers' <= MaxHandlers
    /\ found' = [exc_class |-> None, blueprint |-> None, handler |-> NoHandler]
    /\ UNCHANGED <<ctxVars, cfgVars, pureVars, firstVars>>

\* self._find_error_handler(e) for an exception of class exc_class raised in
\* a request whose blueprint is bp
FindErrorHandler(bp, exc_class) ==
    /\ found' = [exc_class |-> exc_class, blueprint |-> bp,
                 handler |-> Flask_find_error_handler(error_handler_spec, bp, exc_class)]
    /\ UNCHANGED <<ctxVars, cfgVars, pureVars, firstVars, error_handler_spec>>

InitHandlers ==
    /\ InitCtx
    /\ call = NoCall
    /\ InitErr
    /\ InitFirst
    /\ preserve_on_exc = FALSE
    /\ debug = FALSE
    /\ secret_key = FALSE
    /\ session_refresh_each_request = TRUE
    /\ propagate_exceptions = FALSE
    /\ trap_http_exceptions = FALSE

NextHandlers ==
    \/ \E key \in Scopes, k \in HandlerKeys : RegisterErrorHandler(key, k)
    \/ \E bp \in Scopes, c \in Classes : FindErrorHandler(bp, c)

SpecHandlers == InitHandlers /\ [][NextHandlers]_vars

(***************************************************************************)
(* Concurrent requests at the first-request gate                           *)
(* (Flask.try_trigger_before_first_request_functions), calls of            *)
(* add_url_rule, and the return of Flask.run.                              *)
(***************************************************************************)
routeVars == <<url_map, view_functions, setup>>

\* a request arrives on an idle thread: full_dispatch_request begins
Arrive(t) ==
    /\ pc[t] = "idle"
    /\ requests < MaxRequests
    /\ requests' = requests + 1
    /\ pc' = [pc EXCEPT ![t] = "check"]
    /\ UNCHANGED <<got_first_request, before_request_lock, hook_index, stops, first_runs,
                   passed, dispatched, routeVars, ctxVars, cfgVars, pureVars, errVars>>

\* if self._got_first_request: return
Check(t) ==
    /\ pc[t] = "check"
    /\ pc' = [pc EXCEPT ![t] = IF got_first_request THEN "dispatch" ELSE "acquire"]
    /\ passed' = (passed \/ got_first_request)
    /\ UNCHANGED <<got_first_request, before_request_lock, hook_index, requests, stops,
                   first_runs, dispatched, routeVars, ctxVars, cfgVars, pureVars, errVars>>

\* the with block entered without waiting for the lock
Acquire_without_waiting(t) ==
    /\ pc[t] = "acquire"
    /\ before_request_lock' = t
    /\ pc' = [pc EXCEPT ![t] = "recheck"]
    /\ UNCHANGED <<got_first_request, hook_index, requests, stops, first_runs, passed,
                   dispatched, routeVars, ctxVars, cfgVars, pureVars, errVars>>

\* with self._before_request_lock: the thread waits until the lock is free
Acquire(t) ==
    /\ pc[t] = "acquire"
    /\ before_request_lock = None
    /\ before_request_lock' = t
    /\ pc' = [pc EXCEPT ![t] = "recheck"]
    /\ UNCHANGED <<got_first_request, hook_index, requests, stops, first_runs, passed,
                   dispatched, routeVars, ctxVars, cfgVars, pureVars, errVars>>

\* if self._got_first_request: return, which releases the lock
Recheck(t) ==
    /\ pc[t] = "recheck"
    /\ pc' = [pc EXCEPT ![t] = IF got_first_request THEN "dispatch" ELSE "hooks"]
    /\ before_request_lock' = IF got_first_request THEN None ELSE t
    /\ hook_index' = [hook_index EXCEPT ![t] = 1]
    /\ passed' = (passed \/ got_first_request)
    /\ UNCHANGED <<got_first_request, requests, stops, first_runs, dispatched, routeVars,
                   ctxVars, cfgVars, pureVars, errVars>>

\* func() for the next of before_first_request_funcs; if it raises, the
\* exception leaves the with block, which releases the lock, and the request
\* ends in handle_exception without having been dispatched
RunHook(t) ==
    /\ pc[t] = "hooks"
    /\ hook_index[t] <= Len(before_first_request_funcs)
    /\ first_runs' = [first_runs EXCEPT ![before_first_request_funcs[hook_index[t]]] = @ + 1]
    /\ \E raises \in BOOLEAN :
        /\ pc' = [pc EXCEPT ![t] = IF raises THEN "idle" ELSE "hooks"]
        /\ hook_index' = [hook_index EXCEPT ![t] = IF raises THEN 1 ELSE @ + 1]
        /\ before_request_lock' = IF raises THEN None ELSE t
    /\ UNCHANGED <<got_first_request, requests, stops, passed, dispatched, routeVars,
                   ctxVars, cfgVars, pureVars, errVars>>

\* self._got_first_request = True, and the end of the with block
SetFlag(t) ==
    /\ pc[t] = "hooks"
    /\ hook_index[t] > Len(before_first_request_funcs)
    /\ got_first_request' = TRUE
    /\ before_request_lock' = None
    /\ passed' = TRUE
    /\ pc' = [pc EXCEPT ![t] = "dispatch"]
    /\ hook_index' = [hook_index EXCEPT ![t] = 1]
    /\ UNCHANGED <<requests, stops, first_runs, dispatched, routeVars, ctxVars, cfgVars, pureVars,
                   errVars>>

\* the rest of full_dispatch_request: the request is preprocessed and dispatched
Dispatch(t) ==
    /\ pc[t] = "dispatch"
    /\ dispatched' = TRUE
    /\ pc' = [pc EXCEPT ![t] = "idle"]
    /\ UNCHANGED <<got_first_request, before_request_lock, hook_index, requests, stops,
                   first_runs, passed, routeVars, ctxVars, cfgVars, pureVars, errVars>>

\* Flask.run returns: finally: self._got_first_request = False
RunReturns ==
    /\ stops < MaxStops
    /\ stops' = stops + 1
    /\ got_first_request' = FALSE
    /\ passed' = FALSE
    /\ UNCHANGED <<before_request_lock, pc, hook_index, requests, first_runs, dispatched,
                   routeVars, ctxVars, cfgVars, pureVars, errVars>>

\* item.upper() for a method as the caller wrote it
upper(item) == IF item = "options" THEN "OPTIONS" ELSE item

\* the methods the rule is limited to before the required ones are added:
\* the argument, else the attribute methods of the view function, else GET
ListedMethods(view_func, methods) ==
    IF methods # {} THEN {upper(item) : item \in (CHOOSE given \in methods : TRUE)}
    ELSE IF ViewAttr[view_func].methods # {}
    THEN {upper(item) : item \in (CHOOSE given \in ViewAttr[view_func].methods : TRUE)}
    ELSE {"GET"}

\* provide_automatic_options before the default is taken: the argument, else
\* the attribute of the view function, else nothing
ExplicitOptions(view_func, provide_automatic_options) ==
    IF provide_automatic_options # {} THEN provide_automatic_options
    ELSE ViewAttr[view_func].provide_automatic_options

\* rule.provide_automatic_options as add_url_rule sets it
ProvideAutomaticOptions(view_func, methods, provide_automatic_options) ==
    IF ExplicitOptions(view_func, provide_automatic_options) # {}
    THEN CHOOSE flag \in ExplicitOptions(view_func, provide_automatic_options) : TRUE
    ELSE "OPTIONS" \notin ListedMethods(view_func, methods)

\* required_methods: those of the view function, and OPTIONS where the flag
\* was left to the default and the methods do not list it
RequiredMethods(view_func, methods, provide_automatic_options) ==
    ViewAttr[view_func].required_methods \cup
    (IF /\ ExplicitOptions(view_func, provide_automatic_options) = {}
        /\ "OPTIONS" \notin ListedMethods(view_func, methods)
     THEN {"OPTIONS"} ELSE {})

\* url_rule_class(rule, methods=methods, endpoint=endpoint): a rule that
\* answers GET answers HEAD
Rule(rule, endpoint, methods, flag) ==
    [rule |-> rule, endpoint |-> endpoint,
     methods |-> methods \cup (IF "GET" \in methods THEN {"HEAD"} ELSE {}),
     provide_automatic_options |-> flag]

\* a registration that replaces the view function of the endpoint
add_url_rule_overwriting(rule, endpoint, view_func, methods, provide_automatic_options) ==
    [url_map |-> Append(url_map,
                    Rule(rule, endpoint,
                         ListedMethods(view_func, methods) \cup
                         RequiredMethods(view_func, methods, provide_automatic_options),
                         ProvideAutomaticOptions(view_func, methods,
                                                 provide_automatic_options))),
     view_functions |->
        IF view_func # None THEN [view_functions EXCEPT ![endpoint] = view_func]
        ELSE view_functions,
     err |-> None]

\* the body of add_url_rule: the rule is added to the map before the view
\* function of the endpoint is compared with the one given
add_url_rule(rule, endpoint, view_func, methods, provide_automatic_options) ==
    [url_map |-> Append(url_map,
                    Rule(rule, endpoint,
                         ListedMethods(view_func, methods) \cup
                         RequiredMethods(view_func, methods, provide_automatic_options),
                         ProvideAutomaticOptions(view_func, methods,
                                                 provide_automatic_options))),
     view_functions |->
        IF view_func # None /\ view_functions[endpoint] \in {None, view_func}
        THEN [view_functions EXCEPT ![endpoint] = view_func] ELSE view_functions,
     err |-> IF view_func # None /\ view_functions[endpoint] \notin {None, view_func}
             THEN "AssertionError" ELSE None]

\* the state of the routes after the call of the wrapped method, or unchanged
\* with an AssertionError if the wrapper raises
setupmethod(raises, res) ==
    IF raises THEN [url_map |-> url_map, view_functions |-> view_functions,
                    err |-> "AssertionError"]
    ELSE res

\* app.add_url_rule(rule, endpoint, view_func, methods=methods,
\* provide_automatic_options=provide_automatic_options), from any thread
AddUrlRule(rule, endpoint, view_func, methods, provide_automatic_options) ==
    /\ Len(url_map) < MaxRules
    /\ url_map' = setupmethod(setupmethod_raises(debug, got_first_request),
                              add_url_rule(rule, endpoint, view_func, methods,
                                           provide_automatic_options)).url_map
    /\ view_functions' = setupmethod(setupmethod_raises(debug, got_first_request),
                                     add_url_rule(rule, endpoint, view_func, methods,
                                                  provide_automatic_options)).view_functions
    /\ setup' = [op |-> "add_url_rule",
                 err |-> setupmethod(setupmethod_raises(debug, got_first_request),
                                     add_url_rule(rule, endpoint, view_func, methods,
                                                  provide_automatic_options)).err,
                 passed |-> passed, dispatched |-> dispatched,
                 url_map |-> url_map, view_functions |-> view_functions,
                 args |-> [rule |-> rule, endpoint |-> endpoint, view_func |-> view_func,
                           methods |-> methods,
                           provide_automatic_options |-> provide_automatic_options]]
    /\ UNCHANGED <<got_first_request, before_request_lock, pc, hook_index, requests, stops,
                   first_runs, passed, dispatched, ctxVars, cfgVars, pureVars, errVars>>

InitGate ==
    /\ InitCtx
    /\ call = NoCall
    /\ InitErr
    /\ InitFirst
    /\ preserve_on_exc = FALSE
    /\ debug \in BOOLEAN
    /\ secret_key = FALSE
    /\ session_refresh_each_request = TRUE
    /\ propagate_exceptions = FALSE
    /\ trap_http_exceptions = FALSE

NextGate ==
    \/ \E t \in Threads : Arrive(t)
    \/ \E t \in Threads : Check(t)
    \/ \E t \in Threads : Acquire(t)
    \/ \E t \in Threads : Recheck(t)
    \/ \E t \in Threads : RunHook(t)
    \/ \E t \in Threads : SetFlag(t)
    \/ \E t \in Threads : Dispatch(t)
    \/ RunReturns
    \/ \E rule \in Rules, view_func \in ViewFuncs : AddUrlRule(rule, "e1", view_func, {}, {})

SpecGate == InitGate /\ [][NextGate]_vars

(***************************************************************************)
(* The routes (app.py): add_url_rule with its methods, and the dispatch of *)
(* a request by the rule that url_adapter.match finds for it.              *)
(***************************************************************************)
\* the paths and the methods of the requests
Paths == {"/a", "/b"}

RequestMethods == {"GET", "OPTIONS"}

\* the methods argument of add_url_rule: the empty set where it is not given
MethodsArgs == {{}, {{"GET", "options"}}}

\* the provide_automatic_options argument, the empty set where it is not given
OptionsArgs == {{}, {TRUE}, {FALSE}}

\* the rules of the map whose pattern is the path, in the order of the map
RulesFor(map, path) == SelectSeq(map, LAMBDA rule : rule.rule = path)

\* url_adapter.match(return_rule=True) in match_request: the first rule for
\* the path that answers the method, MethodNotAllowed where rules for the
\* path answer other methods only, NotFound where the path has no rule
match(map, path, method) ==
    IF SelectSeq(RulesFor(map, path), LAMBDA rule : method \in rule.methods) # <<>>
    THEN [url_rule |->
            {Head(SelectSeq(RulesFor(map, path), LAMBDA rule : method \in rule.methods))},
          routing_exception |-> None]
    ELSE IF RulesFor(map, path) # <<>>
    THEN [url_rule |-> {}, routing_exception |-> "MethodNotAllowed"]
    ELSE [url_rule |-> {}, routing_exception |-> "NotFound"]

\* adapter.allowed_methods(): the methods of every rule for the path
allowed_methods(map, path) ==
    UNION {RulesFor(map, path)[i].methods : i \in DOMAIN RulesFor(map, path)}

\* what dispatch_request comes to: a response made here, the return value of
\* a view function, or an exception
Outcome(kind, allow, view, exc) == [kind |-> kind, allow |-> allow, view |-> view, exc |-> exc]

\* make_default_options_response: rv.allow.update(methods)
make_default_options_response(map, path) ==
    Outcome("response", allowed_methods(map, path), None, None)

\* self.view_functions[rule.endpoint](**req.view_args)
CallViewFunction(rule) ==
    IF view_functions[rule.endpoint] = None THEN Outcome("raise", {}, None, "KeyError")
    ELSE Outcome("view", {}, view_functions[rule.endpoint], None)

\* a dispatch that calls the view function for every method
DispatchByRule_to_view(rule, path, method) == CallViewFunction(rule)

\* dispatch_request once the rule is known: the automatic answer to OPTIONS,
\* or the view function of the endpoint
DispatchByRule(rule, path, method) ==
    IF rule.provide_automatic_options /\ method = "OPTIONS"
    THEN make_default_options_response(url_map, path)
    ELSE CallViewFunction(rule)

\* match_request and dispatch_request for a request of the path and method
dispatch_request(path, method) ==
    IF match(url_map, path, method).routing_exception # None
    THEN Outcome("raise", {}, None, match(url_map, path, method).routing_exception)
    ELSE DispatchByRule(CHOOSE rule \in match(url_map, path, method).url_rule : TRUE,
                        path, method)

\* a request of the path and method is matched and dispatched
DispatchRequest(path, method) ==
    /\ call' = [op |-> "dispatch_request", path |-> path, method |-> method,
                url_map |-> url_map,
                url_rule |-> match(url_map, path, method).url_rule,
                out |-> dispatch_request(path, method)]
    /\ UNCHANGED <<ctxVars, cfgVars, errVars, firstVars>>

InitRoutes ==
    /\ InitCtx
    /\ call = NoCall
    /\ InitErr
    /\ InitFirst
    /\ preserve_on_exc = FALSE
    /\ debug = FALSE
    /\ secret_key = FALSE
    /\ session_refresh_each_request = TRUE
    /\ propagate_exceptions = FALSE
    /\ trap_http_exceptions = FALSE

NextRoutes ==
    \/ \E rule \in Rules, endpoint \in Endpoints,
          view_func \in ViewFuncs \cup ClassViews \cup {None},
          methods \in MethodsArgs, provide_automatic_options \in OptionsArgs :
            AddUrlRule(rule, endpoint, view_func, methods, provide_automatic_options)
    \/ \E path \in Paths, method \in RequestMethods : DispatchRequest(path, method)

SpecRoutes == InitRoutes /\ [][NextRoutes]_vars

(***************************************************************************)
(* Flask.make_response (app.py).  A Python value is a record of its type   *)
(* and what make_response reads of it; a status is written as a string.    *)
(***************************************************************************)
\* None
NoneValue == [type |-> "NoneType"]

\* a str or an int, as a body or as a status
Scalar(t, v) == [type |-> t, value |-> v]

\* a dict, list, tuple or Headers of header entries
Collection(t, items) == [type |-> t, items |-> items]

\* a tuple of values, as a view returns it
TupleOf(items) == [type |-> "tuple", items |-> items]

\* an instance of Flask.response_class
Response(body, status, headers) ==
    [type |-> "Response", body |-> body, status |-> status, headers |-> headers]

\* self.response_class(rv, status=status, headers=headers): the default status
\* and the default content type where none is given
Response_init(rv, status, headers) ==
    Response(rv.value,
             IF status.type = "NoneType" THEN "200 OK" ELSE status.value,
             (IF headers.type = "NoneType" THEN <<>> ELSE headers.items) \o <<"Content-Type">>)

\* jsonify(rv) of a dict
jsonify(rv) == Response("json", "200 OK", <<"Content-Type">>)

\* the outcome of make_response: the response returned, or the error raised
Coerced(rv) == [err |-> None, rv |-> rv]

CoerceFails == [err |-> "TypeError", rv |-> NoneValue]

\* isinstance(rv[1], (Headers, dict, tuple, list))
IsHeaders(v) == v.type \in {"Headers", "dict", "tuple", "list"}

\* a value read as body, status and headers
Read(rv, status, headers) == [rv |-> rv, status |-> status, headers |-> headers]

\* unpack tuple returns: the set holding what the value is read as, empty
\* where the tuple has another length than 2 or 3
Unpack(rv) ==
    IF rv.type # "tuple" THEN {Read(rv, NoneValue, NoneValue)}
    ELSE IF Len(rv.items) = 3 THEN {Read(rv.items[1], rv.items[2], rv.items[3])}
    ELSE IF Len(rv.items) = 2
    THEN (IF IsHeaders(rv.items[2])
          THEN {Read(rv.items[1], NoneValue, rv.items[2])}
          ELSE {Read(rv.items[1], rv.items[2], NoneValue)})
    ELSE {}

\* the headers given put in the place of those of the response
ExtendHeaders_replacing(rv, headers) ==
    IF headers.type = "NoneType" \/ headers.items = <<>> THEN rv
    ELSE [rv EXCEPT !.headers = headers.items]

\* if headers: rv.headers.extend(headers)
ExtendHeaders(rv, headers) ==
    IF headers.type = "NoneType" \/ headers.items = <<>> THEN rv
    ELSE [rv EXCEPT !.headers = @ \o headers.items]

\* if status is not None: rv.status = status, or rv.status_code = status
SetStatus(rv, status) ==
    IF status.type = "NoneType" THEN rv ELSE [rv EXCEPT !.status = status.value]

\* the end of make_response, from "prefer the status if it was provided"
Finish(rv, status, headers) == Coerced(ExtendHeaders(SetStatus(rv, status), headers))

\* make sure the body is an instance of the response class, making a new
\* response of an instance too
CoerceBody_anew(u) ==
    IF u.rv.type = "NoneType" THEN CoerceFails
    ELSE IF u.rv.type = "Response"
    THEN Finish(Response(u.rv.body, u.rv.status, <<"Content-Type">>), u.status, u.headers)
    ELSE IF u.rv.type = "str" THEN Finish(Response_init(u.rv, u.status, u.headers), NoneValue, NoneValue)
    ELSE IF u.rv.type = "dict" THEN Finish(jsonify(u.rv), u.status, u.headers)
    ELSE CoerceFails

\* the body must not be None; make sure it is an instance of the response class
CoerceBody(u) ==
    IF u.rv.type = "NoneType" THEN CoerceFails
    ELSE IF u.rv.type = "Response" THEN Finish(u.rv, u.status, u.headers)
    ELSE IF u.rv.type = "str" THEN Finish(Response_init(u.rv, u.status, u.headers), NoneValue, NoneValue)
    ELSE IF u.rv.type = "dict" THEN Finish(jsonify(u.rv), u.status, u.headers)
    ELSE CoerceFails

make_response(rv) ==
    IF Unpack(rv) = {} THEN CoerceFails ELSE CoerceBody(CHOOSE u \in Unpack(rv) : TRUE)

\* the bodies a view returns: None, a str, a dict, a response, or a value of
\* a type make_response does not take
Bodies ==
    {NoneValue, Scalar("str", "text"), Collection("dict", <<"key">>),
     Response("made", "202 ACCEPTED", <<"X-Old">>), Scalar("int", "7")}

\* the statuses a view gives: a str or an int
Statuses == {Scalar("str", "201 CREATED"), Scalar("int", "404")}

\* the headers a view gives
HeaderValues ==
    {Collection(t, <<"X-New">>) : t \in {"Headers", "dict", "tuple", "list"}}
    \cup {Collection("dict", <<>>)}

\* longest tuple a view returns
MaxTuple == 4

\* the values make_response is called with: a body, or a tuple of up to
\* MaxTuple values beginning with a body, its status and headers where a
\* 3-tuple has them, None or of the type stated
ReturnValues ==
    Bodies
    \cup {TupleOf(<<>>)}
    \cup {TupleOf(<<x>>) : x \in Bodies}
    \cup {TupleOf(<<x, y>>) : x \in Bodies, y \in Statuses \cup HeaderValues \cup {NoneValue}}
    \cup {TupleOf(<<x, y, z>>) :
            x \in Bodies, y \in Statuses \cup {NoneValue}, z \in HeaderValues \cup {NoneValue}}
    \cup {TupleOf([i \in 1..n |-> IF i = 1 THEN x ELSE y]) :
            x \in Bodies, y \in Statuses, n \in 4..MaxTuple}

\* response = app.make_response(rv) for the value drawn
MakeResponse ==
    /\ call.op = "return"
    /\ call' = [op |-> "make_response", arg |-> call.arg, res |-> make_response(call.arg)]
    /\ UNCHANGED <<ctxVars, cfgVars, errVars, firstVars>>

\* make_response once more, of the response it returned
MakeResponseAgain ==
    /\ call.op = "make_response"
    /\ call.res.err = None
    /\ call' = [op |-> "make_response", arg |-> call.res.rv, res |-> make_response(call.res.rv)]
    /\ UNCHANGED <<ctxVars, cfgVars, errVars, firstVars>>

\* a view has returned a value
InitResponse ==
    /\ InitCtx
    /\ InitErr
    /\ InitFirst
    /\ call \in [op : {"return"}, arg : ReturnValues]
    /\ preserve_on_exc = FALSE
    /\ debug = FALSE
    /\ secret_key = FALSE
    /\ session_refresh_each_request = TRUE
    /\ propagate_exceptions = FALSE
    /\ trap_http_exceptions = FALSE

NextResponse ==
    \/ MakeResponse
    \/ MakeResponseAgain

SpecResponse == InitResponse /\ [][NextResponse]_vars

(***************************************************************************)
(* Message flashing (helpers.py).  The record call holds the part of the   *)
(* request that flash and get_flashed_messages touch: session is the value *)
(* of session["_flashes"] (no element: the key is absent), null says that  *)
(* the session is a NullSession, flashes is RequestContext.flashes of the  *)
(* top context (no element: None), and pulled is what the first            *)
(* get_flashed_messages of the request took from the session.              *)
(***************************************************************************)
\* the messages and categories the views flash
Messages == {"m1", "m2"}
Categories == {"message", "error"}
\* the values of category_filter: the default () and one category
CategoryFilters == {{}, {"error"}}
\* no more messages than this wait in a session
MaxFlashes == 2

\* d.get(key, default) and d.pop(key) of an optional value
ValueOr(opt, default) == IF opt = {} THEN default ELSE CHOOSE v \in opt : TRUE

\* list(filter(lambda f: f[0] in category_filter, flashes))
RECURSIVE FilterByCategory(_, _)
FilterByCategory(flashes, category_filter) ==
    IF flashes = <<>> THEN <<>>
    ELSE IF Head(flashes)[1] \in category_filter
         THEN <<Head(flashes)>> \o FilterByCategory(Tail(flashes), category_filter)
         ELSE FilterByCategory(Tail(flashes), category_filter)

\* what get_flashed_messages returns of the list flashes: filtered if
\* category_filter is not empty, the texts alone unless with_categories
Shown(flashes, with_categories, category_filter) ==
    LET kept == IF category_filter # {} THEN FilterByCategory(flashes, category_filter)
                ELSE flashes
    IN  IF ~with_categories THEN [i \in 1..Len(kept) |-> kept[i][2]] ELSE kept

\* flash(message, category): the list of the session, or a new one, gets the
\* pair and is stored in the session; a NullSession refuses the assignment
flash(c, message, category) ==
    LET flashes == Append(ValueOr(c.session, <<>>), <<category, message>>)
    IN  IF c.null THEN [c |-> c, err |-> "RuntimeError"]
        ELSE [c |-> [c EXCEPT !.session = {flashes}], err |-> None]

\* get_flashed_messages that reads the session at every call
get_flashed_messages_uncached(c, with_categories, category_filter) ==
    LET flashes == ValueOr(c.session, <<>>)
    IN  [c  |-> [c EXCEPT !.flashes = {flashes}, !.session = {}],
         rv |-> Shown(flashes, with_categories, category_filter)]

\* get_flashed_messages(with_categories, category_filter): the first call of
\* the request pops "_flashes" from the session into RequestContext.flashes
get_flashed_messages(c, with_categories, category_filter) ==
    LET first   == c.flashes = {}
        flashes == IF first THEN ValueOr(c.session, <<>>) ELSE ValueOr(c.flashes, <<>>)
    IN  [c  |-> IF first THEN [c EXCEPT !.flashes = {flashes}, !.session = {}] ELSE c,
         rv |-> Shown(flashes, with_categories, category_filter)]

\* the state of flashing that an operation found
FlashState(c) == [session |-> c.session, flashes |-> c.flashes, pulled |-> c.pulled]

\* a view or template calls flash(message, category)
Flash(message, category) ==
    /\ call.op \in {"request", "flash", "get_flashed_messages"}
    /\ Len(ValueOr(call.session, <<>>)) < MaxFlashes
    /\ LET res == flash(call, message, category)
       IN  call' = [res.c EXCEPT !.op = "flash", !.err = res.err, !.rv = <<>>,
                                 !.args = <<message, category>>,
                                 !.before = FlashState(call)]
    /\ UNCHANGED <<ctxVars, cfgVars, errVars, firstVars>>

\* a view or template calls get_flashed_messages(with_categories, category_filter)
GetFlashedMessages(with_categories, category_filter) ==
    /\ call.op \in {"request", "flash", "get_flashed_messages"}
    /\ LET res == get_flashed_messages(call, with_categories, category_filter)
       IN  call' = [res.c EXCEPT !.op = "get_flashed_messages", !.err = None, !.rv = res.rv,
                                 !.args = <<with_categories, category_filter>>,
                                 !.pulled = IF call.pulled = {}
                                            THEN {ValueOr(call.session, <<>>)}
                                            ELSE call.pulled,
                                 !.before = FlashState(call)]
    /\ UNCHANGED <<ctxVars, cfgVars, errVars, firstVars>>

\* the request ends and the next request of the same client begins: a new
\* RequestContext with flashes = None, and the session of the cookie that
\* save_session wrote for the modified session
NextRequest ==
    /\ call.op \in {"flash", "get_flashed_messages"}
    /\ call' = [call EXCEPT !.op = "request", !.err = None, !.rv = <<>>, !.args = <<>>,
                            !.flashes = {}, !.pulled = {},
                            !.before = FlashState(call)]
    /\ UNCHANGED <<ctxVars, cfgVars, errVars, firstVars>>

\* the first request of a client: nothing flashed, with a secret key or without
InitFlash ==
    /\ InitCtx
    /\ InitErr
    /\ InitFirst
    /\ call \in [op : {"request"}, null : BOOLEAN, session : {{}}, flashes : {{}},
                 pulled : {{}}, err : {None}, rv : {<<>>}, args : {<<>>},
                 before : {[session |-> {}, flashes |-> {}, pulled |-> {}]}]
    /\ preserve_on_exc = FALSE
    /\ debug = FALSE
    /\ secret_key = FALSE
    /\ session_refresh_each_request = TRUE
    /\ propagate_exceptions = FALSE
    /\ trap_http_exceptions = FALSE

NextFlash ==
    \/ \E message \in Messages, category \in Categories : Flash(message, category)
    \/ \E with_categories \in BOOLEAN, category_filter \in CategoryFilters :
           GetFlashedMessages(with_categories, category_filter)
    \/ NextRequest

SpecFlash == InitFlash /\ [][NextFlash]_vars

(***************************************************************************)
(* What the last operation did, read from its record.                      *)
(***************************************************************************)
\* the number of calls of name on ctx the last operation made
Calls(name, ctx) ==
    Cardinality({i \in 1..Len(last.log) : last.log[i][1] = name /\ last.log[i][2] = ctx})

\* the errors the last operation passed in its calls of name on ctx
PassedTo(name, ctx) ==
    {last.log[i][4] : i \in {j \in 1..Len(last.log) :
                                last.log[j][1] = name /\ last.log[j][2] = ctx}}

\* C1: a pop of a request context runs do_teardown_request exactly once if it
\* is the pop that matches the context's first push (no push of it is left
\* open), and not at all if it is an intermediate pop of a nested context.
\* A push made later in the same operation is discounted from the open pushes.
C1_TeardownOnLastPopOnly ==
    \A r \in RequestContexts :
        Calls("RequestContext.pop", r) > 0 =>
            /\ Calls("RequestContext.pop", r) = 1
            /\ Calls("do_teardown_request", r) =
                   (IF pushes[r] - Calls("RequestContext.push", r) = 0 THEN 1 ELSE 0)

\* C1 witness: an intermediate pop of a nested request context, which ran no teardown
C1_IntermediatePop ==
    \E r \in RequestContexts :
        /\ last.op = "RequestContext.auto_pop"
        /\ last.ctx = r
        /\ Calls("RequestContext.pop", r) = 1
        /\ pushes[r] = 1
        /\ Calls("do_teardown_request", r) = 0

\* C2: a pop of an application context that leaves pushes of it open runs no
\* teardown; the pop that matches its first push runs do_teardown_appcontext
\* exactly once.  Holds for explicit pops and for the pop a request context
\* makes of the application context it created.
C2_AppTeardownOnFinalPopOnly ==
    \A a \in AppContexts :
        Calls("AppContext.pop", a) > 0 =>
            /\ Calls("AppContext.pop", a) = 1
            /\ pushes[a] > 0 => Calls("do_teardown_appcontext", a) = 0
            /\ pushes[a] = 0 => Calls("do_teardown_appcontext", a) = 1

\* C2 witness: the first of two pops of an application context pushed twice
C2_PopAboveZero ==
    \E a \in AppContexts :
        /\ last.op = "AppContext.pop"
        /\ last.ctx = a
        /\ last.err = None
        /\ pushes[a] = 1
        /\ Calls("do_teardown_appcontext", a) = 0

\* the stack of the kind of context the last operation was called on, as found
StackBefore ==
    IF last.op = "AppContext.pop" THEN last.before.app_ctx_stack
    ELSE last.before.request_ctx_stack

StackAfter ==
    IF last.op = "AppContext.pop" THEN app_ctx_stack ELSE request_ctx_stack

IsPop == last.op \in {"AppContext.pop", "RequestContext.pop"}

\* C9: a pop that returns normally has removed the entry pushed last among
\* those on the stack, and that entry is the context popped; a pop of a
\* context whose stack is empty raises.
C9_PopsInReverseOrder ==
    IsPop =>
        /\ last.err = None =>
              /\ StackBefore # <<>>
              /\ Last(StackBefore) = last.ctx
              /\ StackAfter = Front(StackBefore)
        /\ StackBefore = <<>> => last.err # None

\* C9 witness: a pop that returned normally from a stack of two entries
C9_PoppedTopOfTwo ==
    /\ IsPop
    /\ last.err = None
    /\ Len(StackBefore) = 2
    /\ StackBefore[1] # StackBefore[2]

\* the entry the last pop removed from its stack: RequestContext.pop raises
\* IndexError before it touches the stack
Removed ==
    IF last.err = "IndexError" THEN "nothing" ELSE LocalStack_top(StackBefore)

AppTeardownRan == \E a \in AppContexts : Calls("do_teardown_appcontext", a) > 0

\* C10 as stated: a pop that removed an entry other than its context raises
\* the mismatch error (the AssertionError of "assert rv is self").
C10_MismatchAlwaysAsserts ==
    (IsPop /\ Removed # "nothing" /\ Removed # last.ctx) => last.err = "AssertionError"

\* C10 amended: a pop that removed an entry other than its context never
\* returns normally; it raises the mismatch error, or else the exception of
\* an application-context teardown callback that ran during the pop.
C10_MismatchRaises ==
    (IsPop /\ Removed # "nothing" /\ Removed # last.ctx) =>
        \/ last.err = "AssertionError"
        \/ last.err = HookError /\ AppTeardownRan

\* C10 witness: a pop of a context that removed another context from the stack
C10_RemovedOther ==
    /\ IsPop
    /\ Removed \in (RequestContexts \cup AppContexts) \ {last.ctx}
    /\ last.err = "AssertionError"

\* C4: a push that found a preserved context on top of the request stack has
\* popped it with its stored error, which its teardown callbacks received;
\* one teardown sequence has run for it, and its preserved flag and stored
\* error are cleared.
C4_ForcedPopTearsDown ==
    \A r \in RequestContexts :
        (last.op = "RequestContext.push" /\ Calls("RequestContext.pop", r) > 0) =>
            /\ Calls("do_teardown_request", r) = 1
            /\ PassedTo("teardown_request", r) \subseteq PassedTo("RequestContext.pop", r)
            /\ ~preserved[r]
            /\ preserved_exc[r] = None

\* the first entry of a sequence of lookups that found a handler
RECURSIVE FirstFound(_)
FirstFound(hs) ==
    IF hs = <<>> THEN NoHandler
    ELSE IF Head(hs) # NoHandler THEN Head(hs) ELSE FirstFound(Tail(hs))

\* the code of the class of the exception looked up
FoundCode == Flask_get_exc_class_and_code(found.exc_class).code

\* the handler of a scope registered for the exact code of the exception
ForExactCode(scope) ==
    IF FoundCode = None THEN NoHandler
    ELSE FirstHandler(error_handler_spec[scope][FoundCode], mro(found.exc_class))

\* the handler a scope has for a class, whatever code the class carries
ForClass(scope, cls) ==
    error_handler_spec[scope][Flask_get_exc_class_and_code(cls).code][cls]

\* the handler of a scope for the most specific class of the exception's
\* hierarchy that has one
ByHierarchy(scope) ==
    FirstFound([i \in 1..Len(mro(found.exc_class)) |->
                   ForClass(scope, mro(found.exc_class)[i])])

\* a blueprint handler for 404 beats the application's handler for NotFound
BlueprintFirst ==
    (/\ found.exc_class = "NotFound"
     /\ found.blueprint = "bp"
     /\ error_handler_spec["bp"]["404"]["NotFound"] # NoHandler)
        => found.handler = error_handler_spec["bp"]["404"]["NotFound"]

\* C7: the handler chosen is the first of: the blueprint's handler for the
\* exact code, the application's for the exact code, the blueprint's found
\* by walking the class hierarchy of the exception from the most specific
\* class, the application's found the same way.
C7_LookupOrder ==
    found.exc_class # None =>
        /\ found.handler = FirstFound(<<ForExactCode(found.blueprint), ForExactCode(None),
                                        ByHierarchy(found.blueprint), ByHierarchy(None)>>)
        /\ BlueprintFirst

\* C6: each first-request function is called at most once in the lifetime of
\* the application.  Stated here for an application whose run() has not
\* returned, so that no reset of the first-request flag is involved.
C6_FirstHooksAtMostOnce ==
    stops = 0 => \A f \in Range(before_first_request_funcs) : first_runs[f] <= 1

\* the last call of add_url_rule raised in the wrapper and registered nothing
SetupRefused ==
    /\ setup.err = "AssertionError"
    /\ url_map = setup.url_map
    /\ view_functions = setup.view_functions

\* C8 as stated: in debug, add_url_rule called after a request has been
\* dispatched raises the setup error and registers nothing.
C8_SetupRefusedAfterDispatch ==
    (setup.op = "add_url_rule" /\ debug /\ setup.dispatched) => SetupRefused

\* C8 amended: in debug, add_url_rule called after a request has passed the
\* first-request gate raises the setup error and registers nothing, as long
\* as run() has not returned since that request (its return resets the flag).
C8_SetupRefusedWhileFlagSet ==
    (setup.op = "add_url_rule" /\ debug /\ setup.passed) => SetupRefused

\* C8 witness: in debug, add_url_rule was called after a dispatch and refused
C8_RefusedAfterDispatch ==
    /\ setup.op = "add_url_rule"
    /\ debug
    /\ setup.passed
    /\ setup.dispatched
    /\ SetupRefused

\* the names of the calls a pop of a request context makes
PopCalls ==
    {"RequestContext.pop", "do_teardown_request", "teardown_request",
     "AppContext.pop", "do_teardown_appcontext", "teardown_appcontext",
     "_request_ctx_stack.pop", "_app_ctx_stack.pop"}

\* the positions in the log of the calls of auto_pop on the context of the last operation
AutoPops ==
    {i \in 1..Len(last.log) :
        last.log[i][1] = "RequestContext.auto_pop" /\ last.log[i][2] = last.ctx}

\* C3: every call of wsgi_app calls auto_pop of its request context exactly
\* once, and as its last step (only the calls the pop itself makes follow),
\* whether the call returned a response or raised.
C3_AutoPopOnceAtEnd ==
    last.op = "wsgi_app" =>
        /\ Cardinality(AutoPops) = 1
        /\ \A i \in AutoPops : \A j \in (i + 1)..Len(last.log) : last.log[j][1] \in PopCalls

\* C3 witness: a call of wsgi_app in which handle_exception re-raised the
\* exception of the view, and which called auto_pop once, with that exception
C3_AutoPopAfterReraise ==
    /\ last.op = "wsgi_app"
    /\ propagate_exceptions
    /\ last.err = "KeyError"
    /\ Calls("handle_exception", None) = 1
    /\ Cardinality(AutoPops) = 1
    /\ PassedTo("RequestContext.auto_pop", last.ctx) = {"KeyError"}

\* the functions among fs the last operation called, in the order of the calls
RECURSIVE CalledAmong(_, _)
CalledAmong(log, fs) ==
    IF log = <<>> THEN <<>>
    ELSE (IF Head(log)[1] \in {"before_request", "view", "after_request"} /\ Head(log)[3] \in fs
          THEN <<Head(log)[3]>> ELSE <<>>)
         \o CalledAmong(Tail(log), fs)

\* a call of wsgi_app that returned a response, in which no callback raised
\* and no before-request function returned a value
PlainRequest ==
    /\ last.op = "wsgi_app"
    /\ last.err = None
    /\ last.b.bad = {}
    /\ last.b.early = {}

\* C5: in a request in which no hook raises or answers the request itself,
\* the before-request functions [A,B] and after-request functions [C,D] of
\* the application run in the order A, B, view, D, C, and those of the
\* request's blueprint, [bA,bB] and [bC,bD], in the order bA, bB, view, bD, bC.
C5_HooksAroundView ==
    PlainRequest =>
        /\ CalledAmong(last.log, {"A", "B", "view", "C", "D"}) = <<"A", "B", "view", "D", "C">>
        /\ blueprint(last.ctx) = "bp" =>
               CalledAmong(last.log, {"bA", "bB", "view", "bC", "bD"})
                   = <<"bA", "bB", "view", "bD", "bC">>

\* C5 witness: a request of the blueprint whose view returned and whose hooks all ran
C5_RequestWithHooks ==
    /\ PlainRequest
    /\ last.b.view = "ok"
    /\ blueprint(last.ctx) = "bp"
    /\ Calls("before_request", last.ctx) = 4
    /\ Calls("view", last.ctx) = 1
    /\ Calls("after_request", last.ctx) = 4

\* C11 as stated: a push of an application context whose count was already
\* positive adds no stack entry, and a pop that leaves the count positive
\* removes none.
C11_BindsOnFirstPushOnly ==
    /\ (last.op = "AppContext.push" /\ refcnt[last.ctx] > 1) =>
           app_ctx_stack = last.before.app_ctx_stack
    /\ (last.op = "AppContext.pop" /\ refcnt[last.ctx] > 0) =>
           app_ctx_stack = last.before.app_ctx_stack

\* C11 amended: every push of an application context adds it as a new
\* entry on top of the stack, whatever its count, and every pop removes
\* the top entry, whatever count it leaves.
C11_EveryPushBinds ==
    /\ last.op = "AppContext.push" =>
           app_ctx_stack = Append(last.before.app_ctx_stack, last.ctx)
    /\ last.op = "AppContext.pop" =>
           app_ctx_stack = LocalStack_pop(last.before.app_ctx_stack).stack

\* C11 witness: the second push of an instance already on the stack, which
\* left it on the stack twice
C11_PushedTwice ==
    /\ last.op = "AppContext.push"
    /\ refcnt[last.ctx] = 2
    /\ last.before.app_ctx_stack = <<last.ctx>>
    /\ app_ctx_stack = <<last.ctx, last.ctx>>

\* C12: the count of an application context is never negative, and the
\* teardown callbacks of the application context run only in an operation
\* that brings the count of the context to 0.
C12_CountNeverNegative ==
    \A a \in AppContexts :
        /\ refcnt[a] >= 0
        /\ Calls("do_teardown_appcontext", a) > 0 => refcnt[a] = 0

\* the last operation was one call of auto_pop(exc) on its context, and nothing else
AutoPopOf(exc) ==
    /\ last.op = "RequestContext.auto_pop"
    /\ last.log # <<>>
    /\ Head(last.log) = <<"RequestContext.auto_pop", last.ctx, None, exc>>

\* the context of the last operation is to be preserved by auto_pop(exc)
ToPreserve(exc) == preserve_context(last.ctx) \/ (exc # None /\ preserve_on_exc)

\* C13: auto_pop(exc) preserves the context (preserved is set, exc is
\* stored, nothing else is called and both stacks are as they were) exactly
\* when the environ carries the preserve flag or exc is not None and
\* preserve_context_on_exception is on; otherwise it calls pop(exc), once
\* (a pop of a context that is not pushed raises IndexError at once).
C13_PreservesExactlyWhenAsked ==
    \A exc \in {None} \cup Exceptions :
        AutoPopOf(exc) =>
            IF ToPreserve(exc)
            THEN /\ preserved[last.ctx]
                 /\ preserved_exc[last.ctx] = exc
                 /\ Len(last.log) = 1
                 /\ last.err = None
                 /\ request_ctx_stack = last.before.request_ctx_stack
                 /\ app_ctx_stack = last.before.app_ctx_stack
            ELSE \/ /\ Len(last.log) > 1
                    /\ last.log[2] = <<"RequestContext.pop", last.ctx, None, exc>>
                    /\ Calls("RequestContext.pop", last.ctx) = 1
                 \/ /\ last.err = "IndexError"
                    /\ last.before.request_ctx_stack = request_ctx_stack
                    /\ implicit_app_ctx_stack[last.ctx] = <<>>

\* C13 witness: a context without the flag preserved because of an error
C13_PreservedOnError ==
    \E exc \in Exceptions :
        /\ AutoPopOf(exc)
        /\ ~preserve_context(last.ctx)
        /\ preserve_on_exc
        /\ preserved[last.ctx]
        /\ preserved_exc[last.ctx] = exc

\* the positions in the log of the last operation of the calls named name
Positions(name) == {i \in 1..Len(last.log) : last.log[i][1] = name}

\* a call of wsgi_app for a request whose URL matched no rule, in which no
\* before-request function raised or returned a value
UnroutedRequest ==
    /\ last.op = "wsgi_app"
    /\ last.b.route # Matched
    /\ last.b.bad \cap {"A", "B"} = {}
    /\ last.b.early = {}

\* C14: for a request whose URL matches no rule, push returns normally with
\* the failure stored as request.routing_exception; the before-request
\* functions that apply (those of the application: the request has no
\* blueprint) all run; and only after them dispatch_request raises the
\* stored exception, without calling a view.
C14_RoutingFailureSurfacesAtDispatch ==
    UnroutedRequest =>
        /\ Calls("RequestContext.push", last.ctx) = 1
        /\ routing_exception[last.ctx] = last.b.route
        /\ CalledAmong(last.log, Range(before_request_funcs[None]) \cup Range(before_request_funcs["bp"]))
               = before_request_funcs[None]
        /\ Calls("view", last.ctx) = 0
        /\ Cardinality(Positions("raise_routing_exception")) = 1
        /\ PassedTo("raise_routing_exception", last.ctx) = {last.b.route}
        /\ \A i \in Positions("before_request"), j \in Positions("raise_routing_exception") :
               /\ i < j
               /\ \A k \in Positions("RequestContext.push") : k < i

\* C14 witness: a request for a URL that no rule matches, answered with the
\* 404 after both before-request functions ran
C14_NotFoundAfterHooks ==
    /\ UnroutedRequest
    /\ last.b.route = "NotFound"
    /\ last.err = None
    /\ Calls("before_request", last.ctx) = 2
    /\ last.rv.body = <<"exception", "NotFound">>

\* all before-request functions and all after-request functions of the registries
AllBeforeFuncs == Range(before_request_funcs[None]) \cup Range(before_request_funcs["bp"])

AllAfterFuncs == Range(after_request_funcs[None]) \cup Range(after_request_funcs["bp"])

\* a call of wsgi_app in which the first before-request function returned a value
AnsweredEarly ==
    /\ last.op = "wsgi_app"
    /\ last.b.early = {"A"}

\* C15: when a before-request function returns a value, no later
\* before-request function runs, no view is called and a stored routing
\* exception is not raised; the value is made the response and the
\* after-request functions run on it as on the result of a view.
C15_EarlyValueSkipsDispatch ==
    AnsweredEarly =>
        /\ CalledAmong(last.log, AllBeforeFuncs) = <<"A">>
        /\ Calls("view", last.ctx) = 0
        /\ Positions("raise_routing_exception") = {}
        /\ Positions("errorhandler") = {}
        /\ last.err = None
        /\ last.rv = [body |-> <<"before_request", "A">>,
                      via |-> AfterRequestFuncs(Request_blueprint(State, last.ctx))]
        /\ CalledAmong(last.log, AllAfterFuncs)
               = AfterRequestFuncs(Request_blueprint(State, last.ctx))

\* C15 witness: a request for a URL no rule matches, answered by the
\* before-request function A
C15_AnsweredBeforeRouting ==
    /\ AnsweredEarly
    /\ routing_exception[last.ctx] = "NotFound"
    /\ last.rv.body = <<"before_request", "A">>
    /\ last.rv.via = <<"D", "C">>

\* the exception that preprocessing or dispatch raises in the last request, or None
Failure ==
    IF last.b.early # {} THEN None
    ELSE IF last.b.bad \cap AllBeforeFuncs # {} THEN CallbackError
    ELSE IF last.b.route # Matched THEN last.b.route
    ELSE IF last.b.view \in Classes THEN last.b.view
    ELSE None

\* the handler registered for the failure of the last request
FailureHandler ==
    Flask_find_error_handler(error_handler_spec, Request_blueprint(State, last.ctx), Failure)

\* the last request failed in preprocessing or in its view, a handler is
\* registered for the failure, and it is not a routing exception
HandledFailure ==
    /\ last.op = "wsgi_app"
    /\ Failure # None
    /\ ~issubclass(Failure, "RoutingException")
    /\ FailureHandler # NoHandler

\* C16: an exception of preprocessing or of the view is passed to
\* handle_user_exception, once per request; the value a registered handler
\* returns for it becomes the response, after the after-request functions
\* ran on it; and if the handler raises, handle_user_exception is not
\* called again: the exception goes to handle_exception.
C16_FailureHandledOnce ==
    last.op = "wsgi_app" =>
        /\ Calls("handle_user_exception", None) = (IF Failure # None THEN 1 ELSE 0)
        /\ Failure # None => PassedTo("handle_user_exception", None) = {Failure}
        /\ (HandledFailure /\ last.b.bad = {} /\ last.b.none = {}) =>
               /\ last.err = None
               /\ last.rv = [body |-> <<"errorhandler", FailureHandler[1], FailureHandler[2]>>,
                             via |-> ProcessFuncs(ctx_after_request_functions[last.ctx],
                                                  Request_blueprint(State, last.ctx))]
               /\ CalledAmong(last.log, AllAfterFuncs \cup {"T1", "T2"}) = last.rv.via
        /\ (HandledFailure /\ last.b.bad = {"errorhandler"}) =>
               /\ last.log[Min(Positions("errorhandler"))][4] = Failure
               /\ PassedTo("handle_exception", None) = {CallbackError}

\* C16 witness: the view raised KeyError and the handler registered for it raised
C16_HandlerRaised ==
    /\ HandledFailure
    /\ Failure = "KeyError"
    /\ last.b.bad = {"errorhandler"}
    /\ FailureHandler = Handler(None, "KeyError")
    /\ Calls("handle_user_exception", None) = 1
    /\ Calls("handle_exception", None) = 1

\* the last request failed in preprocessing or in its view, and
\* handle_user_exception re-raised the exception: no handler is registered
\* for it, and it is no HTTPException or HTTP exceptions are trapped
UnhandledFailure ==
    /\ last.op = "wsgi_app"
    /\ Failure # None
    /\ FailureHandler = NoHandler
    /\ ~issubclass(Failure, "HTTPException") \/ trap_http_exceptions

\* the handler registered for InternalServerError or 500, for the last request
ServerErrorHandler ==
    Flask_find_error_handler(error_handler_spec, Request_blueprint(State, last.ctx),
                             "InternalServerError")

\* the body of the 500 response: the InternalServerError, or the handler's value
ServerErrorBody ==
    IF ServerErrorHandler = NoHandler THEN <<"exception", "InternalServerError">>
    ELSE <<"errorhandler", ServerErrorHandler[1], ServerErrorHandler[2]>>

FinalizedFromErrorHandler ==
    /\ last.op = "wsgi_app"
    /\ Calls("handle_exception", None) = 1
    /\ ~propagate_exceptions
    /\ "errorhandler" \notin last.b.bad

\* C18: a failure of finalize_request entered from handle_exception (in
\* making the response of the value, or in an after-request function) is
\* suppressed: wsgi_app returns a response and raises no second exception.
C18_FinalizeFailureSuppressed ==
    FinalizedFromErrorHandler => last.err = None

\* C19: no registered error handler is ever called with a RoutingException,
\* whatever the configuration and the handlers registered.
C19_RoutingExceptionNeverHandled ==
    \A i \in Positions("errorhandler") : ~issubclass(last.log[i][4], "RoutingException")

\* a call of wsgi_app that returned a response, in which no callback raised or returned None
ProcessedRequest ==
    /\ last.op = "wsgi_app"
    /\ last.err = None
    /\ last.b.bad = {}
    /\ last.b.none = {}

\* the order C20 states for the request of the last operation
StatedOrder ==
    ctx_after_request_functions[last.ctx]
    \o (IF Request_blueprint(State, last.ctx) = "bp" THEN <<"bD", "bC">> ELSE <<>>)
    \o <<"D", "C">>

\* C20: process_response calls the functions registered with
\* after_this_request during the request first, in registration order, then
\* the after-request functions of the request's blueprint in reverse
\* registration order, then those of the application in reverse registration
\* order, each with the response the one before returned.
C20_AfterThisRequestFirst ==
    ProcessedRequest =>
        /\ CalledAmong(last.log, AllAfterFuncs \cup {"T1", "T2"}) = StatedOrder
        /\ last.rv.via = StatedOrder

\* C20 witness: a request of the blueprint whose view registered T1 and T2
C20_AllThreeKinds ==
    /\ ProcessedRequest
    /\ last.b.after_this = <<"T1", "T2">>
    /\ last.rv.via = <<"T1", "T2", "bD", "bC", "D", "C">>

\* the teardown-request callbacks the last operation called, in the order of the calls
RECURSIVE TornDown(_)
TornDown(log) ==
    IF log = <<>> THEN <<>>
    ELSE (IF Head(log)[1] = "teardown_request" THEN <<Head(log)[3]>> ELSE <<>>)
         \o TornDown(Tail(log))

\* the order of the after-request functions, for the teardown callbacks of
\* the scopes of a request of blueprint bp: the blueprint's before the
\* application's, each scope in reverse registration order
LikeAfterRequest(bp) ==
    (IF bp # None /\ bp \in DOMAIN teardown_request_funcs
     THEN Reverse(teardown_request_funcs[bp]) ELSE <<>>)
    \o Reverse(teardown_request_funcs[None])

\* C21: the pop that tears a request context down, with no callback raising,
\* calls the teardown-request callbacks in the order in which the
\* after-request functions run: those of the request's blueprint before those
\* of the application, each scope in reverse registration order.
C21_TeardownReversedLikeAfterRequest ==
    \A r \in RequestContexts :
        (Calls("do_teardown_request", r) = 1 /\ last.err = None) =>
            TornDown(last.log) = LikeAfterRequest(Request_blueprint(State, r))

\* C22: the session of a request is opened at most once: the contexts of the
\* request (the original and its copies) that have a session all have the
\* very same session object, and no operation opens more than one session.
C22_SessionOpenedOnce ==
    /\ \A r \in CopyContexts, c \in CopyContexts :
           (session[r] # None /\ session[c] # None) => session[r] = session[c]
    /\ \A r \in CopyContexts : Calls("open_session", r) <= 1

\* the session object of the context of the last operation
LastSession == sessions[session[last.ctx]]

\* C23: a pushed request context always has a session; without a secret key
\* (open_session returns None) it is a null session; every operation of a
\* view that changes a null session raises RuntimeError and leaves it
\* unchanged; and process_response never calls save_session for a null
\* session, so no cookie is set or deleted.
C23_NullSessionFailsLoudly ==
    /\ \A r \in RequestContexts : r \in Range(request_ctx_stack) => session[r] # None
    /\ last.op = "wsgi_app" =>
           /\ session[last.ctx] # None
           /\ is_null_session(LastSession) <=> ~secret_key
           /\ is_null_session(LastSession) =>
                  /\ LastSession = make_null_session
                  /\ MethodOf(last.b.view) \in MutatingMethods =>
                         PassedTo("handle_user_exception", None) = {"RuntimeError"}
                  /\ Calls("save_session", last.ctx) = 0
                  /\ Calls("set_cookie", last.ctx) = 0
                  /\ Calls("delete_cookie", last.ctx) = 0

\* C23 witness: without a secret key a view set a key of the session; the
\* RuntimeError became the 500 response, and the session was not saved
C23_SetItemOnNullSession ==
    /\ last.op = "wsgi_app"
    /\ ~secret_key
    /\ last.b.view = "__setitem__"
    /\ PassedTo("handle_user_exception", None) = {"RuntimeError"}
    /\ last.err = None
    /\ last.rv.body = <<"exception", "InternalServerError">>
    /\ Calls("save_session", last.ctx) = 0

\* a call of wsgi_app in which process_response came to the end of its
\* after-request functions
ReachedSave ==
    /\ last.op = "wsgi_app"
    /\ last.err = None
    /\ last.b.bad = {}

\* C24: where process_response comes to its end, a session cookie is set on
\* the response if and only if the session is not a null session, is not
\* empty, and was modified or is permanent with SESSION_REFRESH_EACH_REQUEST
\* on; the cookie is deleted if and only if the session is not null, is
\* empty and was modified; an empty session never sets a cookie.
C24_CookieSetExactlyWhenDue ==
    ReachedSave =>
        /\ Calls("set_cookie", last.ctx) =
               (IF /\ ~is_null_session(LastSession)
                   /\ LastSession.keys # {}
                   /\ \/ LastSession.modified
                      \/ SessionMixin_permanent(LastSession) /\ session_refresh_each_request
                THEN 1 ELSE 0)
        /\ Calls("delete_cookie", last.ctx) =
               (IF ~is_null_session(LastSession) /\ LastSession.keys = {} /\ LastSession.modified
                THEN 1 ELSE 0)

\* C24 witness: a permanent session loaded from the cookie and only read is
\* saved again because SESSION_REFRESH_EACH_REQUEST is on
C24_PermanentRefreshed ==
    /\ ReachedSave
    /\ last.b.view = "get"
    /\ LastSession = [null |-> FALSE, keys |-> {"k", "_permanent"}, modified |-> FALSE]
    /\ session_refresh_each_request
    /\ Calls("set_cookie", last.ctx) = 1

\* the status C25 states a tuple is read with: the second element of a
\* 3-tuple, and that of a 2-tuple unless it is a headers collection
StatedStatus(t) ==
    IF Len(t.items) = 3 THEN t.items[2]
    ELSE IF t.items[2].type \in {"Headers", "dict", "list", "tuple"} THEN NoneValue
    ELSE t.items[2]

\* the headers C25 states a tuple is read with
StatedHeaders(t) ==
    IF Len(t.items) = 3 THEN t.items[3]
    ELSE IF t.items[2].type \in {"Headers", "dict", "list", "tuple"} THEN t.items[2]
    ELSE NoneValue

\* the header entries of a value given as headers
Given(headers) == IF headers.type = "NoneType" THEN <<>> ELSE headers.items

\* the response is the canonical response of the body with the status
\* replaced if one is given and with the headers given added to its own
OverridesAndExtends(res, canonical, status, headers) ==
    IF canonical.err # None THEN res.err = "TypeError"
    ELSE /\ res.err = None
         /\ res.rv.body = canonical.rv.body
         /\ res.rv.status = (IF status.type = "NoneType" THEN canonical.rv.status
                             ELSE status.value)
         /\ Range(res.rv.headers) = Range(canonical.rv.headers) \cup Range(Given(headers))
         /\ Len(res.rv.headers) = Len(canonical.rv.headers) + Len(Given(headers))

\* C25: make_response of a tuple: a 3-tuple is read as (body, status,
\* headers); a 2-tuple as (body, headers) if its second element is a Headers
\* object, a dict, a list or a tuple, and as (body, status) otherwise; a
\* tuple of another length raises TypeError; the response is that of the
\* body, its status replaced by the status given and its headers extended
\* by the headers given.
C25_TupleReadByShape ==
    (call.op = "make_response" /\ call.arg.type = "tuple") =>
        IF Len(call.arg.items) \notin {2, 3} THEN call.res.err = "TypeError"
        ELSE OverridesAndExtends(call.res, make_response(call.arg.items[1]),
                                 StatedStatus(call.arg), StatedHeaders(call.arg))

\* C25 witness: a response returned with a tuple of header entries: the
\* 2-tuple was read as (body, headers), the status kept, the headers extended
C25_TupleAsHeaders ==
    /\ call.op = "make_response"
    /\ call.arg = TupleOf(<<Response("made", "202 ACCEPTED", <<"X-Old">>),
                            Collection("tuple", <<"X-New">>)>>)
    /\ call.res = Coerced(Response("made", "202 ACCEPTED", <<"X-Old", "X-New">>))

\* whether the body of a value is None: the value itself, or the first
\* element of a tuple of 2 or 3
BodyIsNone(rv) ==
    IF rv.type = "tuple" THEN Len(rv.items) \in {2, 3} /\ rv.items[1] = NoneValue
    ELSE rv = NoneValue

\* C26: make_response of an instance of the response class returns it
\* unchanged, so make_response of what make_response returned returns the
\* same again; make_response of None, alone or as the body of a tuple,
\* raises TypeError.
C26_IdempotentOnResponses ==
    call.op = "make_response" =>
        /\ call.arg.type = "Response" => call.res = Coerced(call.arg)
        /\ call.res.err = None => make_response(call.res.rv) = call.res
        /\ BodyIsNone(call.arg) => call.res.err = "TypeError"

\* C26 witness: make_response called again with the response it had made of
\* a tuple with a status and headers
C26_CoercedTwice ==
    /\ call.op = "make_response"
    /\ call.arg = Response("made", "404", <<"X-Old", "X-New">>)
    /\ call.res = Coerced(call.arg)

\* C27: registering a route for an endpoint that already has another view
\* function raises AssertionError and leaves the mapping alone; registering
\* it again with the same view function succeeds; and a registration never
\* changes the view function an endpoint already has, so every endpoint keeps
\* the first view function registered for it.
C27_EndpointKeepsFirstViewFunction ==
    setup.op = "add_url_rule" =>
        /\ \A e \in Endpoints :
              setup.view_functions[e] # None => view_functions[e] = setup.view_functions[e]
        /\ setup.args.view_func # None =>
              /\ setup.view_functions[setup.args.endpoint] \notin {None, setup.args.view_func}
                    => (setup.err = "AssertionError" /\ view_functions = setup.view_functions)
              /\ setup.view_functions[setup.args.endpoint] = setup.args.view_func
                    => (setup.err = None /\ view_functions = setup.view_functions)
              /\ setup.view_functions[setup.args.endpoint] = None
                    => /\ setup.err = None
                       /\ view_functions[setup.args.endpoint] = setup.args.view_func

\* C27 witness: an endpoint that has "v1" was registered again with "v2",
\* the call raised, and the endpoint still has "v1"
C27_ConflictRefused ==
    /\ setup.op = "add_url_rule"
    /\ setup.view_functions["e1"] = "v1"
    /\ setup.args.endpoint = "e1"
    /\ setup.args.view_func = "v2"
    /\ setup.err = "AssertionError"
    /\ view_functions["e1"] = "v1"
    /\ Len(url_map) = 2

\* the rule the last call of add_url_rule added
AddedRule == url_map[Len(url_map)]

\* the last call of add_url_rule switched the automatic OPTIONS off for the
\* route, by its argument or by the attribute of the view function
ExplicitlyDisabled ==
    ExplicitOptions(setup.args.view_func, setup.args.provide_automatic_options) = {FALSE}

\* the route of the last call of add_url_rule lists OPTIONS among its methods
ListsOptions == "OPTIONS" \in ListedMethods(setup.args.view_func, setup.args.methods)

\* the methods the rules of the map answered for the path when the request came
AllowedFor(map, path) ==
    {method \in {"GET", "HEAD", "POST", "OPTIONS"} :
        \E i \in DOMAIN map : map[i].rule = path /\ method \in map[i].methods}

IsRequestOp == last.op \in {"RequestContext.push", "RequestContext.pop", "RequestContext.auto_pop"}

\* the application context stack as the push of the last operation found it:
\* a pop forced on a preserved context may have taken an entry off before
AppStackAtPush ==
    SubSeq(last.before.app_ctx_stack, 1,
           Len(last.before.app_ctx_stack)
               - Cardinality({i \in 1..Len(last.log) : last.log[i][1] = "AppContext.pop"}))

\* the application contexts the last operation pushed
CreatedByPush == {a \in AppContexts : Calls("AppContext.push", a) > 0}

\* the error a pop of the last operation was given: its argument, or the
\* exception being handled where the argument was left out
ErrorOfPop(c) ==
    {IF exc = Sentinel THEN call.amb ELSE exc : exc \in PassedTo("RequestContext.pop", c)}

\* C29: a push of a request context creates and pushes an application context
\* exactly when the application context stack is empty or its top belongs to
\* another application, and notes it as its marker; otherwise it pushes none
\* and notes None.  A pop of a request context, at every depth of nesting and
\* also when teardown raised, takes one entry off the request stack and calls
\* pop on an application context exactly when the marker of the matching push
\* names one, on that one, with the error the request pop was given.
C29_ImplicitAppContextPaired ==
    IsRequestOp =>
        /\ \A r \in RequestContexts :
              Calls("RequestContext.push", r) > 0 =>
                  /\ (CreatedByPush # {}) <=>
                        (\/ AppStackAtPush = <<>>
                         \/ CtxApp(Last(AppStackAtPush)) # ReqApp(r))
                  /\ CreatedByPush = {} =>
                        /\ Last(implicit_app_ctx_stack[r]) = None
                        /\ app_ctx_stack = AppStackAtPush
                  /\ \A a \in CreatedByPush :
                        /\ CreatedByPush = {a}
                        /\ Calls("AppContext.push", a) = 1
                        /\ CtxApp(a) = ReqApp(r)
                        /\ a \notin Range(AppStackAtPush)
                        /\ Last(implicit_app_ctx_stack[r]) = a
                        /\ app_ctx_stack = Append(AppStackAtPush, a)
        /\ \A c \in RequestContexts :
              Calls("RequestContext.pop", c) > 0 =>
                  /\ Calls("RequestContext.pop", c) = 1
                  /\ Len(request_ctx_stack) =
                        Len(last.before.request_ctx_stack) - 1
                            + Calls("RequestContext.push", last.ctx)
                  /\ Front(call.implicit_app_ctx_stack[c]) =
                        IF Calls("RequestContext.push", c) > 0
                        THEN Front(implicit_app_ctx_stack[c])
                        ELSE implicit_app_ctx_stack[c]
                  /\ \A a \in AppContexts :
                        Calls("AppContext.pop", a) =
                            (IF a = Last(call.implicit_app_ctx_stack[c]) THEN 1 ELSE 0)
                  /\ \A a \in AppContexts :
                        /\ PassedTo("AppContext.pop", a) \subseteq
                              PassedTo("RequestContext.pop", c) \cup ErrorOfPop(c)
                        /\ PassedTo("do_teardown_appcontext", a) \subseteq ErrorOfPop(c)

\* C29 witness: a request context pushed on top of one of another application
\* was popped with no argument while "E1" was being handled and a teardown
\* callback of the request raised: one entry left the request stack, and the
\* application context its push had created was popped with "E1"
C29_NestedPopWithError ==
    \E a \in AppContexts :
        /\ last.op = "RequestContext.pop"
        /\ call.exc = Sentinel
        /\ call.amb = "E1"
        /\ last.err = HookError
        /\ Calls("teardown_request", last.ctx) > 0
        /\ Len(last.before.request_ctx_stack) = 2
        /\ Len(request_ctx_stack) = 1
        /\ call.implicit_app_ctx_stack[last.ctx] = <<a>>
        /\ PassedTo("AppContext.pop", a) = {"E1"}
        /\ PassedTo("do_teardown_appcontext", a) = {"E1"}

\* the loop over the request teardown callbacks of the last operation ended
\* in an exception: it did not reach "tr1", the last callback of the application
RequestHookRaised(c) ==
    /\ Calls("do_teardown_request", c) > 0
    /\ \A i \in 1..Len(last.log) :
          ~(last.log[i][1] = "teardown_request" /\ last.log[i][3] = "tr1")

\* the same for the teardown callbacks of an application context and "ta1"
AppHookRaised(a) ==
    /\ a # None
    /\ Calls("do_teardown_appcontext", a) > 0
    /\ \A i \in 1..Len(last.log) :
          ~(last.log[i][1] = "teardown_appcontext" /\ last.log[i][3] = "ta1")

\* the last operation popped the request context c from the top of the
\* request stack, and its marker, if it names an application context, names
\* the top of the application context stack
PoppedFromTop(c) ==
    /\ Calls("RequestContext.pop", c) = 1
    /\ LocalStack_top(last.before.request_ctx_stack) = c
    /\ Last(call.implicit_app_ctx_stack[c]) \in
          {None, LocalStack_top(last.before.app_ctx_stack)}

\* C30: where a teardown callback of the request or of its implicitly created
\* application context raises during the pop of a request context, the pop
\* (and a push that made it for a preserved context) raises that exception to
\* its caller, and the request context and the implicitly created application
\* context have left their stacks all the same.
C30_TeardownErrorPropagates ==
    \A c \in RequestContexts :
        (/\ IsRequestOp
         /\ PoppedFromTop(c)
         /\ \/ RequestHookRaised(c)
            \/ AppHookRaised(Last(call.implicit_app_ctx_stack[c]))) =>
            /\ last.err = HookError
            /\ request_ctx_stack = Front(last.before.request_ctx_stack)
            /\ implicit_app_ctx_stack[c] = Front(call.implicit_app_ctx_stack[c])
            /\ app_ctx_stack =
                  IF Last(call.implicit_app_ctx_stack[c]) = None
                  THEN last.before.app_ctx_stack
                  ELSE Front(last.before.app_ctx_stack)

\* C30 witness: a request teardown callback raised in the pop of a request
\* context that had created its application context; the pop raised the
\* exception and both stacks are empty
C30_RaisedAndRemoved ==
    \E c \in RequestContexts :
        /\ last.op = "RequestContext.pop"
        /\ PoppedFromTop(c)
        /\ RequestHookRaised(c)
        /\ Last(call.implicit_app_ctx_stack[c]) # None
        /\ last.err = HookError
        /\ request_ctx_stack = <<>>
        /\ app_ctx_stack = <<>>

\* the callbacks of the given kind the last operation called for the context
CalledOf(name, ctx) ==
    {last.log[i][3] : i \in {j \in 1..Len(last.log) :
                                last.log[j][1] = name /\ last.log[j][2] = ctx}}

\* C31 as stated: a teardown that calls one callback calls them all, whether
\* or not one of them raises: every callback of the application registered
\* for request teardown, and every callback registered for the teardown of
\* the application context.
C31_EveryTeardownHookInvoked ==
    /\ \A c \in RequestContexts :
          CalledOf("teardown_request", c) # {} =>
              Range(teardown_request_funcs[None]) \subseteq CalledOf("teardown_request", c)
    /\ \A a \in AppContexts :
          CalledOf("teardown_appcontext", a) # {} =>
              Range(teardown_appcontext_funcs) \subseteq CalledOf("teardown_appcontext", a)

\* C32: the teardown callbacks run by a pop get the argument of the pop, or,
\* where it was left out, the exception being handled at the call (None if
\* there is none); the callbacks of the implicitly created application
\* context get the same.  The teardown callbacks run by wsgi_app for its
\* request get the exception that was passed to handle_exception, and None
\* if handle_exception was not called; it is not called where no exception
\* occurred and where a registered error handler returned the response.
C32_TeardownGetsResolvedError ==
    /\ last.op = "RequestContext.pop" =>
          \A c \in RequestContexts :
              /\ PassedTo("teardown_request", c) \subseteq ErrorOfPop(c)
              /\ Calls("teardown_request", c) > 0 =>
                    \A a \in AppContexts :
                        PassedTo("teardown_appcontext", a) \subseteq ErrorOfPop(c)
    /\ last.op = "wsgi_app" =>
          /\ PassedTo("teardown_request", last.ctx) \subseteq
                (IF Calls("handle_exception", None) > 0
                 THEN PassedTo("handle_exception", None) ELSE {None})
          /\ PassedTo("RequestContext.auto_pop", last.ctx) =
                (IF Calls("handle_exception", None) > 0
                 THEN PassedTo("handle_exception", None) ELSE {None})
          /\ ((Failure = None \/ HandledFailure) /\ last.b.bad = {} /\ last.b.none = {}) =>
                PassedTo("RequestContext.auto_pop", last.ctx) = {None}

\* C32 witness: the view raised KeyError, no handler is registered for it,
\* and the teardown callbacks of the request got the KeyError
C32_UnhandledReachesTeardown ==
    /\ last.op = "wsgi_app"
    /\ Failure = "KeyError"
    /\ FailureHandler = NoHandler
    /\ PassedTo("handle_exception", None) = {"KeyError"}
    /\ PassedTo("teardown_request", last.ctx) = {"KeyError"}
    /\ Calls("teardown_request", last.ctx) > 0

\* a pop without argument, made while "E1" was handled, gave "E1" to the
\* teardown callbacks of the request
C32_AmbientReachesTeardown ==
    /\ last.op = "RequestContext.pop"
    /\ call.exc = Sentinel
    /\ call.amb = "E1"
    /\ PassedTo("teardown_request", last.ctx) = {"E1"}

\* C33: within one request every call of get_flashed_messages returns, for
\* its arguments, the messages the first call of the request pulled from the
\* session, whatever was flashed in between; the first call removes
\* "_flashes" from the session; a later flash starts a new list in the
\* session, which the next request finds there.
C33_FlashedMessagesCachedPerRequest ==
    /\ call.op = "get_flashed_messages" =>
          /\ call.pulled # {}
          /\ call.rv = Shown(ValueOr(call.pulled, <<>>), call.args[1], call.args[2])
          /\ call.before.pulled = {} =>
                /\ call.pulled = {ValueOr(call.before.session, <<>>)}
                /\ call.session = {}
          /\ call.before.pulled # {} =>
                /\ call.pulled = call.before.pulled
                /\ call.session = call.before.session
    /\ (call.op = "flash" /\ call.err = None) =>
          /\ call.pulled = call.before.pulled
          /\ call.session =
                {Append(ValueOr(call.before.session, <<>>), <<call.args[2], call.args[1]>>)}
    /\ call.op = "request" =>
          /\ call.session = call.before.session
          /\ call.pulled = {}

\* C33: a further call in a request in which a message was flashed after the
\* first call: it returns what the first call pulled, and the session holds
\* the message flashed since
C33_FurtherCallAfterFlash ==
    /\ call.op = "get_flashed_messages"
    /\ call.before.pulled # {}
    /\ call.rv # <<>>
    /\ call.session # {}
    /\ call.session # call.pulled

\* the places in the log of the last operation of the events of a name
EventsNamed(name) == {i \in 1..Len(last.log) : last.log[i][1] = name}

\* the place of the last event of the name before place i, or 0
LastBefore(i, name) ==
    IF \E p \in EventsNamed(name) : p < i
    THEN CHOOSE p \in EventsNamed(name) : p < i /\ \A q \in EventsNamed(name) : q < i => q <= p
    ELSE 0

\* every call of a callback of the kind hook is made by a pop of its context,
\* after that pop began and before that pop takes an entry off the stack
RunsBeforeRemoval(hook, pop, removal) ==
    \A i \in EventsNamed(hook) :
        /\ LastBefore(i, pop) > 0
        /\ last.log[LastBefore(i, pop)][2] = last.log[i][2]
        /\ \A k \in LastBefore(i, pop)..i : last.log[k][1] # removal
        /\ \E j \in EventsNamed(removal) : j > i

\* C34: the teardown callbacks run while their context is still bound: in
\* every pop the calls of the teardown_request callbacks come before the
\* entry is taken off the request stack, and the calls of the
\* teardown_appcontext callbacks before the entry is taken off the
\* application stack; where the context popped is the one on top, it is the
\* entry that is taken off after its callbacks ran.
C34_TeardownRunsWhileBound ==
    /\ RunsBeforeRemoval("teardown_request", "RequestContext.pop", "_request_ctx_stack.pop")
    /\ RunsBeforeRemoval("teardown_appcontext", "AppContext.pop", "_app_ctx_stack.pop")
    /\ last.op \in {"RequestContext.pop", "RequestContext.auto_pop"} =>
          \A c \in RequestContexts :
              (PoppedFromTop(c) /\ Calls("teardown_request", c) > 0) =>
                  \E j \in EventsNamed("_request_ctx_stack.pop") :
                      /\ last.log[j][2] = c
                      /\ \A i \in EventsNamed("teardown_request") : i < j

\* C34: a pop of the request context on top in which callbacks of both kinds
\* ran and both contexts were taken off their stacks
C34_BothTornDownThenUnbound ==
    /\ last.op = "RequestContext.pop"
    /\ PoppedFromTop(last.ctx)
    /\ Calls("teardown_request", last.ctx) > 0
    /\ \E a \in AppContexts : Calls("teardown_appcontext", a) > 0
    /\ EventsNamed("_request_ctx_stack.pop") # {}
    /\ EventsNamed("_app_ctx_stack.pop") # {}

\* the stage of a pop of a request context an event of the log belongs to:
\* 1 the teardown of the request, 2 the removal from the request stack, 3 the
\* teardown of the application context, 4 its removal; 0 for any other event
Stage(name) ==
    IF name \in {"do_teardown_request", "teardown_request"} THEN 1
    ELSE IF name = "_request_ctx_stack.pop" THEN 2
    ELSE IF name \in {"AppContext.pop", "do_teardown_appcontext", "teardown_appcontext"} THEN 3
    ELSE IF name = "_app_ctx_stack.pop" THEN 4
    ELSE 0

\* the places in the log that belong to the pop that begins at place p: those
\* after p up to the next pop of a request context
PlacesOfPop(p) ==
    {k \in (p + 1)..Len(last.log) :
        \A q \in (p + 1)..k : last.log[q][1] # "RequestContext.pop"}

\* the stages that occur in the pop that begins at place p
StagesOfPop(p) == {Stage(last.log[k][1]) : k \in PlacesOfPop(p)} \ {0}

\* C35: in every pop of a request context the steps come in the order
\* request teardown, removal from the request stack, application-context
\* teardown, removal from the application stack; the pop of an application
\* context is always preceded by the removal of the request context in the
\* same pop; and the pop of the context on top that was pushed once with an
\* implicitly created application context goes through all four steps and
\* takes these two contexts off the stacks.
C35_PopOrder ==
    /\ \A p \in EventsNamed("RequestContext.pop") :
          /\ \A i, j \in PlacesOfPop(p) :
                (i < j /\ Stage(last.log[i][1]) > 0 /\ Stage(last.log[j][1]) > 0) =>
                    Stage(last.log[i][1]) <= Stage(last.log[j][1])
          /\ 3 \in StagesOfPop(p) => {2, 4} \subseteq StagesOfPop(p)
    /\ \A q \in EventsNamed("AppContext.pop") : LastBefore(q, "RequestContext.pop") > 0
    /\ last.op \in {"RequestContext.pop", "RequestContext.auto_pop"} =>
          \A c \in RequestContexts :
              (/\ PoppedFromTop(c)
               /\ Len(call.implicit_app_ctx_stack[c]) = 1
               /\ Last(call.implicit_app_ctx_stack[c]) # None) =>
                  /\ \A p \in EventsNamed("RequestContext.pop") :
                         StagesOfPop(p) = {1, 2, 3, 4}
                  /\ \E j \in EventsNamed("_request_ctx_stack.pop") : last.log[j][2] = c
                  /\ \E j \in EventsNamed("_app_ctx_stack.pop") :
                         last.log[j][2] = Last(call.implicit_app_ctx_stack[c])

\* C35: auto_pop pops a request context that created its application
\* context, and a teardown callback of the request raised on the way
C35_FourStepsAfterRaise ==
    /\ last.op = "RequestContext.auto_pop"
    /\ PoppedFromTop(last.ctx)
    /\ Len(call.implicit_app_ctx_stack[last.ctx]) = 1
    /\ Last(call.implicit_app_ctx_stack[last.ctx]) # None
    /\ RequestHookRaised(last.ctx)
    /\ last.err = HookError
    /\ \E a \in AppContexts : Calls("teardown_appcontext", a) > 0

\* the request contexts on the request stack that are preserved
PreservedOnStack == {c \in Range(request_ctx_stack) : preserved[c]}

\* C36 as stated: at most one preserved request context is on the request
\* stack, and a push of a request context (by itself or by wsgi_app) leaves
\* no context other than the one pushed preserved on the stack.
C36_AtMostOnePreserved ==
    /\ Cardinality(PreservedOnStack) <= 1
    /\ last.op \in {"wsgi_app", "RequestContext.push"} =>
          PreservedOnStack \subseteq {last.ctx}

\* the place in the log of the push of the context of the last operation, or
\* past the end of the log if the push did not get that far
PushPlace ==
    IF \E i \in EventsNamed("RequestContext.push") : last.log[i][2] = last.ctx
    THEN CHOOSE i \in EventsNamed("RequestContext.push") :
             /\ last.log[i][2] = last.ctx
             /\ \A j \in EventsNamed("RequestContext.push") : last.log[j][2] = last.ctx => i <= j
    ELSE Len(last.log) + 1

\* a stack as wsgi_app found it, less the entries that the pop of a
\* preserved context took off at the beginning of the push
AfterForcedPop(stack, removal) ==
    SubSeq(stack, 1, Len(stack) - Cardinality({i \in EventsNamed(removal) : i < PushPlace}))

\* the generator of a response streamed with stream_with_context is inside
\* its with block when wsgi_app returns
KeptByGenerator == EventsNamed("stream_with_context") # {}

\* a call of wsgi_app has ended and has not preserved its context
EndedUnpreserved == last.op = "wsgi_app" /\ ~preserved[last.ctx]

\* C37 as stated: after a call of wsgi_app that did not preserve its context
\* both stacks are as before the call and the context has no marker left.
C37_StacksAsBeforeCall ==
    EndedUnpreserved =>
        /\ request_ctx_stack = last.before.request_ctx_stack
        /\ app_ctx_stack = last.before.app_ctx_stack
        /\ implicit_app_ctx_stack[last.ctx] = <<>>

\* the application context that the first push of the context of the last
\* operation created and that its remaining marker still refers to
KeptAppContext ==
    IF Head(implicit_app_ctx_stack[last.ctx]) = None THEN <<>>
    ELSE <<Head(implicit_app_ctx_stack[last.ctx])>>

\* C37: after a call of wsgi_app that did not preserve its context, both
\* stacks are as the call found them less what the pop of a preserved top
\* took off when the context was pushed, and the context has no marker
\* left; if the response is streamed with stream_with_context, the context
\* is on the request stack once more, with the one marker of its first push
\* and the application context that push created, for the generator.
C37_StacksBalanced ==
    EndedUnpreserved =>
        /\ ~KeptByGenerator =>
              /\ request_ctx_stack =
                    AfterForcedPop(last.before.request_ctx_stack, "_request_ctx_stack.pop")
              /\ app_ctx_stack = AfterForcedPop(last.before.app_ctx_stack, "_app_ctx_stack.pop")
              /\ implicit_app_ctx_stack[last.ctx] = <<>>
        /\ KeptByGenerator =>
              /\ request_ctx_stack =
                    Append(AfterForcedPop(last.before.request_ctx_stack,
                                          "_request_ctx_stack.pop"), last.ctx)
              /\ Len(implicit_app_ctx_stack[last.ctx]) = 1
              /\ app_ctx_stack =
                    AfterForcedPop(last.before.app_ctx_stack, "_app_ctx_stack.pop")
                        \o KeptAppContext

\* C37: a call of wsgi_app that popped a preserved context when it pushed
\* its own, raised, and left the stacks without either context
C37_BalancedAfterRaise ==
    /\ EndedUnpreserved
    /\ ~KeptByGenerator
    /\ last.err # None
    /\ last.before.request_ctx_stack # <<>>
    /\ EventsNamed("_request_ctx_stack.pop") # {}
    /\ request_ctx_stack =
          AfterForcedPop(last.before.request_ctx_stack, "_request_ctx_stack.pop")

\* thread t has called every first-request function in turn, each has
\* returned, and t still holds the lock
HooksCompletedBy(t) ==
    /\ pc[t] = "hooks"
    /\ hook_index[t] > Len(before_first_request_funcs)
    /\ before_request_lock = t
    /\ \A f \in Range(before_first_request_funcs) : first_runs[f] >= 1

\* C38: under every interleaving, a request goes on to its before-request
\* functions and its view only from a state in which the flag of the first
\* request is set or its own thread has just completed all first-request
\* functions; the flag is set only by a thread that has completed them all;
\* and a thread is inside the with block only as the holder of the lock, so
\* that a request arriving meanwhile waits at the lock.
C38_DispatchAfterFirstRequestHooks ==
    [][/\ \A t \in Threads :
              (pc'[t] = "dispatch" /\ pc[t] # "dispatch") =>
                  (got_first_request \/ HooksCompletedBy(t))
       /\ (got_first_request' /\ ~got_first_request) =>
              \E t \in Threads : HooksCompletedBy(t)
       /\ \A t \in Threads : pc'[t] \in {"recheck", "hooks"} => before_request_lock' = t
       /\ (dispatched' /\ ~dispatched) => \E t \in Threads : pc[t] = "dispatch"
      ]_vars

\* C38: one thread is in the middle of the first-request functions while the
\* request of another thread waits for the lock
C38_WaitingAtLock ==
    \E t, u \in Threads :
        /\ pc[t] = "hooks"
        /\ hook_index[t] > 1
        /\ hook_index[t] <= Len(before_first_request_funcs)
        /\ pc[u] = "acquire"
        /\ ~got_first_request

\* the last operation was a pop of a request context that ended in the
\* AssertionError of "assert rv is self", of the request context or of the
\* application context it popped
MismatchedPop ==
    /\ last.op \in {"RequestContext.pop", "RequestContext.auto_pop"}
    /\ Calls("RequestContext.pop", last.ctx) = 1
    /\ last.err = "AssertionError"

\* a teardown callback of either kind was called in the last operation
TeardownRan ==
    EventsNamed("teardown_request") \cup EventsNamed("teardown_appcontext") # {}

\* C39 as stated: after a pop that failed with the mismatch error both
\* stacks, the markers of every request context and the count of every
\* application context are as the pop found them, and no teardown callback
\* was called.
C39_FailedPopChangesNothing ==
    MismatchedPop =>
        /\ request_ctx_stack = last.before.request_ctx_stack
        /\ app_ctx_stack = last.before.app_ctx_stack
        /\ implicit_app_ctx_stack = call.implicit_app_ctx_stack
        /\ refcnt = call.refcnt
        /\ ~TeardownRan

\* the marker that the pop of the last operation took: the application
\* context of the matching push, or None
MarkerPopped == Last(call.implicit_app_ctx_stack[last.ctx])

\* C39: a pop that fails with the mismatch error has taken effect like any
\* other pop and nothing is restored: the top entry of the request stack,
\* whichever context it is, is removed; the context popped has lost its last
\* marker, and the markers of the other contexts are as before; if the marker
\* was an application context, its count is one less and the top entry of
\* the application stack is removed, else counts and application stack are
\* as before; and the request teardown was started exactly if the marker was
\* the last one of the context.
C39_FailedPopTakesEffect ==
    MismatchedPop =>
        /\ request_ctx_stack = LocalStack_pop(last.before.request_ctx_stack).stack
        /\ implicit_app_ctx_stack =
              [call.implicit_app_ctx_stack EXCEPT ![last.ctx] = Front(@)]
        /\ MarkerPopped = None =>
              /\ app_ctx_stack = last.before.app_ctx_stack
              /\ refcnt = call.refcnt
        /\ MarkerPopped # None =>
              /\ app_ctx_stack = LocalStack_pop(last.before.app_ctx_stack).stack
              /\ refcnt = [call.refcnt EXCEPT ![MarkerPopped] = @ - 1]
        /\ Calls("do_teardown_request", last.ctx) =
              (IF Len(call.implicit_app_ctx_stack[last.ctx]) = 1 THEN 1 ELSE 0)

\* C39: a pop of a context while another context is on top: the other
\* context was removed from the stack, the teardown callbacks of the context
\* popped were called, and the pop raised the mismatch error
C39_OtherRemovedAndTornDown ==
    /\ MismatchedPop
    /\ last.op = "RequestContext.pop"
    /\ LocalStack_top(last.before.request_ctx_stack) \in RequestContexts \ {last.ctx}
    /\ last.ctx \in Range(request_ctx_stack)
    /\ Calls("teardown_request", last.ctx) > 0

\* C40 as stated: a call of add_url_rule that was refused because its
\* endpoint is mapped to another view function has left the URL map and the
\* mapping of endpoints to view functions as it found them.
C40_RefusedRegistrationChangesNothing ==
    (setup.op = "add_url_rule" /\ setup.err = "AssertionError") =>
        /\ url_map = setup.url_map
        /\ view_functions = setup.view_functions

====
